---- MODULE Spec2Model ----
(***************************************************************************)
(* A model of the vector shape/path tessellation core of phantasml:        *)
(* the ear-clipping triangulator of Shape.populateBuffers, the two-pass    *)
(* ShapeList.createGeometry, the miter pass of Path.populateBuffers, the   *)
(* CollisionGeometry queries and the transform algebra of the math kernel. *)
(*                                                                         *)
(* Numbers.  The program computes in IEEE doubles.  The model draws its    *)
(* inputs from small integer grids, on which every quantity the modelled   *)
(* branches test (cross products, dot products, squared lengths) is an     *)
(* integer the doubles represent exactly.  Where the code normalises a     *)
(* vector before a sign test, the model tests the sign of the unnormalised *)
(* integer expression, which has the same sign (and is 0 for a zero-length *)
(* vector, as normalize() returns the zero vector then).                   *)
(***************************************************************************)
EXTENDS Integers, Sequences, FiniteSets, TLC

VARIABLES
    \* ---- Shape.populateBuffers, ear clipping (src/unnamed/part_003) ----
    earPc,                      \* "loop" while remainingTriangles > 0, then "done"; "off" in other specifications
    positions,                  \* vertices[i].position, i \in 1..n (the boundary vertices read from the buffer)
    left, right,                \* vertices[i].left / .right, as indices
    convexVertices,             \* the Set convexVertices, in insertion order
    concaveVertices,            \* the Set concaveVertices, in insertion order
    remainingTriangles,
    iterationsWithoutTriangle,
    triangles,                  \* the index triples written to elementArrayBuffer, in order
    \* ---- ShapeList.createGeometry (src/unnamed/part_003) ----
    geomPc,                     \* "build", "populate", "done", "thrown"; "off" in other specifications
    shapes,                     \* ShapeList.shapes: the exterior Path of each Shape
    paths,                      \* ShapeList.paths
    current,                    \* the Path commands are being added to: "shape", "path" (last of its list) or "none"
    viaApi,                     \* FALSE once a command was pushed onto `commands` directly
    tessellation,               \* the argument of createGeometry, in quarters (4 is 1.0)
    stats,                      \* the GeometryStats of the first pass (groups after the re-ordering)
    arrayIndex, groupIndex,     \* the running offsets of the populate pass
    elementWrites,              \* the runs written to elementArrayBuffer, in order: <<first slot, count,
                                \* firstVertex, vertexCount, vertexOffset, loop, edge>> (vertexOffset -1: a fill)
    populated,                  \* number of shapes and paths populated so far
    error,                      \* message of the exception that left createGeometry, "" if none
    \* ---- Path.populateBuffers, vector pass (src/unnamed/part_003, lines 215-343) ----
    miterPc,                    \* "loop", then "done"; "off" in other specifications
    miterLoop, miterEdge,       \* this.loop and the argument edge
    vertexBuffer,               \* the positions of the path's vertices in arrayBuffer, vertex 0 first
    vertexOffset,               \* the loop variable of the vector pass
    vectorAttributes,           \* the vector attribute of each vertex, as the pass writes it
    \* ---- CollisionGeometry (src/src/server/store/collision.js) ----
    collisionPc,                \* "ready", "answered" after a query; "off" in other specifications
    collisionBuffer,            \* _arrayBuffer: one record (vertex position, thickness) per vertex
    collisionPaths,             \* _paths
    collisionPolygons,          \* _polygons
    query,                      \* the last query made
    result,                     \* what it returned
    \* ---- composeTransforms (src/src/server/store/math.js) ----
    transformPc,                \* "ready", "composed", "applied"; "off" in other specifications
    transformModule,            \* which copy of getTransformMatrix is in use
    secondTransform, firstTransform,  \* the arguments of composeTransforms
    composed,                   \* the transform it returned
    bounds,                     \* the bounds last transformed
    imageComposed,              \* transformBounds(bounds, composed)
    imageSequential,            \* transformBounds(transformBounds(bounds, first), second)
    \* ---- invertTransform (src/src/server/store/math.js) ----
    roundTripPc,                \* "ready", "inverted", "composed", "done"; "off" in other specifications
    original,                   \* the transform T
    originalInverse,            \* invertTransform(T)
    roundTrip,                  \* composeTransforms(T, invertTransform(T))
    roundTripInverse,           \* invertTransform(composeTransforms(T, invertTransform(T)))
    \* ---- composeTransforms of three transforms ----
    associatePc,                \* "ready", "left", "done"; "off" in other specifications
    transformA, transformB, transformC,
    leftComposed,               \* composeTransforms(composeTransforms(A, B), C)
    rightComposed,              \* composeTransforms(A, composeTransforms(B, C))
    \* ---- ShapeList, the builder methods (src/unnamed/part_003, lines 1070-1326) ----
    \* shapes, paths and current (_drawingPath) above are the list's other fields
    turtlePc,                   \* "build", "built", "read"; "off" in other specifications
    listPosition,               \* position, in thousandths
    listRotation,               \* rotation, in eighths of a turn
    script,                     \* the calls of a scripted run, <<>> when the calls are free
    callCount,                  \* the number of calls made
    lastCall,                   \* the last call made
    \* ---- Path.populateBuffers of src/src/server/store/shape.js ----
    closePc,                    \* "ready", "counted", "done"; "off" in other specifications
    closePath,                  \* the path: [loop, commands]
    closeEdge,                  \* the edge argument of the two passes
    closeTessellation,          \* the tessellation argument, in quarters
    closeFirst,                 \* firstArrayIndex / vertexSize: vertices written before the path
    closeStats,                 \* [vertices, indices] counted by updateStats
    closeVertices,              \* for each vertex written, the command and division that wrote it
    closeIndices,               \* the element array as written by the path
    \* ---- vertex attributes in createGeometry (src/unnamed/part_003) ----
    attributePc,                \* "ready", "counted", "done"; "off" in other specifications
    attributePaths,             \* the exteriors of the shapes and the paths, in order
    attributeSizes,             \* stats.attributeSizes
    attributeNames,             \* the keys of stats.attributeSizes in insertion order
    attributeOffsets,           \* attributeOffsets
    vertexSize,                 \* vertexSize
    attributeWrites,            \* the slots of arrayBuffer written: [vertex, slot, name]
    \* ---- ShapeList, the objects its commands refer to (src/unnamed/part_003) ----
    snapshotPc,                 \* "build"; "off" in other specifications
    attributeObjects,           \* the attribute objects allocated; the first is the list's `attributes`
    vectorObjects,              \* the Vector2 objects allocated; the first is the list's `position`
    listCommands,               \* the commands appended: [kind, dest, attributes], the last two references
    penIsDown,                  \* _drawingPath is not null
    builderCalls,               \* the number of builder calls made
    \* ---- simplifyTransform (src/src/server/store/math.js) ----
    simplifyPc,                 \* "ready", "done"; "off" in other specifications
    simplifyInput,              \* the transform T before the call
    simplifyMatrix,             \* getTransformMatrix(T) before the call
    simplifyResult              \* simplifyTransform(T)

earVars == <<earPc, positions, left, right, convexVertices, concaveVertices,
             remainingTriangles, iterationsWithoutTriangle, triangles>>

geomVars == <<geomPc, shapes, paths, current, viaApi, tessellation, stats,
              arrayIndex, groupIndex, elementWrites, populated, error>>

miterVars == <<miterPc, miterLoop, miterEdge, vertexBuffer, vertexOffset,
               vectorAttributes>>

collisionVars == <<collisionPc, collisionBuffer, collisionPaths, collisionPolygons,
                   query, result>>

transformVars == <<transformPc, transformModule, secondTransform, firstTransform,
                   composed, bounds, imageComposed, imageSequential>>

roundTripVars == <<roundTripPc, original, originalInverse, roundTrip, roundTripInverse>>

associateVars == <<associatePc, transformA, transformB, transformC, leftComposed,
                   rightComposed>>

turtleVars == <<turtlePc, listPosition, listRotation, script, callCount, lastCall>>

closeVars == <<closePc, closePath, closeEdge, closeTessellation, closeFirst, closeStats,
               closeVertices, closeIndices>>

attributeVars == <<attributePc, attributePaths, attributeSizes, attributeNames,
                   attributeOffsets, vertexSize, attributeWrites>>

snapshotVars == <<snapshotPc, attributeObjects, vectorObjects, listCommands, penIsDown,
                  builderCalls>>

simplifyVars == <<simplifyPc, simplifyInput, simplifyMatrix, simplifyResult>>

vars == <<earVars, geomVars, miterVars, collisionVars, transformVars, roundTripVars,
          associateVars, turtleVars, closeVars, attributeVars, snapshotVars, simplifyVars>>

\* Each specification below runs one component; the variables of the other
\* components are parked at these idle values and never change.
EarIdle ==
    /\ earPc = "off"
    /\ positions = <<>>
    /\ left = <<>>
    /\ right = <<>>
    /\ convexVertices = <<>>
    /\ concaveVertices = <<>>
    /\ remainingTriangles = 0
    /\ iterationsWithoutTriangle = 0
    /\ triangles = <<>>

GeomIdle ==
    /\ geomPc = "off"
    /\ shapes = <<>>
    /\ paths = <<>>
    /\ current = "none"
    /\ viaApi = TRUE
    /\ tessellation = 0
    /\ stats = <<>>
    /\ arrayIndex = 0
    /\ groupIndex = 0
    /\ elementWrites = <<>>
    /\ populated = 0
    /\ error = ""

MiterIdle ==
    /\ miterPc = "off"
    /\ miterLoop = FALSE
    /\ miterEdge = FALSE
    /\ vertexBuffer = <<>>
    /\ vertexOffset = 0
    /\ vectorAttributes = <<>>

CollisionIdle ==
    /\ collisionPc = "off"
    /\ collisionBuffer = <<>>
    /\ collisionPaths = <<>>
    /\ collisionPolygons = <<>>
    /\ query = <<>>
    /\ result = FALSE

TransformIdle ==
    /\ transformPc = "off"
    /\ transformModule = "math"
    /\ secondTransform = <<>>
    /\ firstTransform = <<>>
    /\ composed = <<>>
    /\ bounds = <<>>
    /\ imageComposed = <<>>
    /\ imageSequential = <<>>

RoundTripIdle ==
    /\ roundTripPc = "off"
    /\ original = <<>>
    /\ originalInverse = <<>>
    /\ roundTrip = <<>>
    /\ roundTripInverse = <<>>

AssociateIdle ==
    /\ associatePc = "off"
    /\ transformA = <<>>
    /\ transformB = <<>>
    /\ transformC = <<>>
    /\ leftComposed = <<>>
    /\ rightComposed = <<>>

\* The components added after the first five: none of the first five
\* specifications touches them.
TurtleIdle ==
    /\ turtlePc = "off"
    /\ listPosition = <<0, 0>>
    /\ listRotation = 0
    /\ script = <<>>
    /\ callCount = 0
    /\ lastCall = <<>>

CloseIdle ==
    /\ closePc = "off"
    /\ closePath = <<>>
    /\ closeEdge = FALSE
    /\ closeTessellation = 0
    /\ closeFirst = 0
    /\ closeStats = <<>>
    /\ closeVertices = <<>>
    /\ closeIndices = <<>>

AttributeIdle ==
    /\ attributePc = "off"
    /\ attributePaths = <<>>
    /\ attributeSizes = <<>>
    /\ attributeNames = <<>>
    /\ attributeOffsets = <<>>
    /\ vertexSize = 0
    /\ attributeWrites = <<>>

SnapshotIdle ==
    /\ snapshotPc = "off"
    /\ attributeObjects = <<>>
    /\ vectorObjects = <<>>
    /\ listCommands = <<>>
    /\ penIsDown = FALSE
    /\ builderCalls = 0

SimplifyIdle ==
    /\ simplifyPc = "off"
    /\ simplifyInput = <<>>
    /\ simplifyMatrix = <<>>
    /\ simplifyResult = <<>>

lastVars == <<snapshotVars, simplifyVars>>

LastIdle == SnapshotIdle /\ SimplifyIdle

bufferVars == <<closeVars, attributeVars, lastVars>>

BufferIdle == CloseIdle /\ AttributeIdle /\ LastIdle

laterVars == <<roundTripVars, associateVars, turtleVars, bufferVars>>

LaterIdle == RoundTripIdle /\ AssociateIdle /\ TurtleIdle /\ BufferIdle

notRoundTripVars == <<associateVars, turtleVars, bufferVars>>

notAssociateVars == <<roundTripVars, turtleVars, bufferVars>>

notEarVars == <<geomVars, miterVars, collisionVars, transformVars, laterVars>>

NotEarIdle == GeomIdle /\ MiterIdle /\ CollisionIdle /\ TransformIdle /\ LaterIdle

notGeomVars == <<earVars, miterVars, collisionVars, transformVars, laterVars>>

NotGeomIdle == EarIdle /\ MiterIdle /\ CollisionIdle /\ TransformIdle /\ LaterIdle

notMiterVars == <<earVars, geomVars, collisionVars, transformVars, laterVars>>

NotMiterIdle == EarIdle /\ GeomIdle /\ CollisionIdle /\ TransformIdle /\ LaterIdle

notCollisionVars == <<earVars, geomVars, miterVars, transformVars, laterVars>>

NotCollisionIdle == EarIdle /\ GeomIdle /\ MiterIdle /\ TransformIdle /\ LaterIdle

notTransformVars == <<earVars, geomVars, miterVars, collisionVars, laterVars>>

NotTransformIdle == EarIdle /\ GeomIdle /\ MiterIdle /\ CollisionIdle /\ LaterIdle

firstFiveVars == <<earVars, geomVars, miterVars, collisionVars, transformVars>>

FirstFiveIdle == EarIdle /\ GeomIdle /\ MiterIdle /\ CollisionIdle /\ TransformIdle

-----------------------------------------------------------------------------
(* Bounds *)

\* Largest number of boundary vertices of an exterior loop.
MaxN == 5

\* Coordinates of the boundary vertices.
GridCoords == {0, 1, 2}

GridPoints == GridCoords \X GridCoords

-----------------------------------------------------------------------------
(* Vector math kernel (src/src/server/store/math.js) *)

minus(first, second) == <<first[1] - second[1], first[2] - second[2]>>

plus(first, second) == <<first[1] + second[1], first[2] + second[2]>>

dot(first, second) == first[1] * second[1] + first[2] * second[2]

cross(first, second) == first[1] * second[2] - first[2] * second[1]

orthogonalize(vector) == <<-vector[2], vector[1]>>

\* signedDistance(planeFromPoints(first, second), point), times |second - first|:
\* the plane normal is orthonormalize(second - first) and its constant
\* -dot(normal, first).
signedDistanceScaled(first, second, point) ==
    dot(orthogonalize(minus(second, first)), point)
        - dot(orthogonalize(minus(second, first)), first)

-----------------------------------------------------------------------------
(* JavaScript Set, iterated in insertion order *)

SeqToSet(s) == {s[i] : i \in 1..Len(s)}

SetAdd(s, x) == IF x \in SeqToSet(s) THEN s ELSE Append(s, x)

SetDelete(s, x) == SelectSeq(s, LAMBDA y : y # x)

-----------------------------------------------------------------------------
(* Shape.populateBuffers: the ear-clipping loop *)

\* cross(leftMiddle, leftRight) >= 0.0 for the corner l, m, r
IsConvexCorner(l, m, r) ==
    cross(minus(positions[m], positions[l]), minus(positions[r], positions[l])) >= 0

\* The classification loop over all vertices (lines 982-991).
InitialConvex(pts) ==
    LET n == Len(pts)
        l(i) == ((i + n - 2) % n) + 1
        r(i) == (i % n) + 1
    IN  SelectSeq([i \in 1..n |-> i],
                  LAMBDA i : cross(minus(pts[i], pts[l(i)]), minus(pts[r(i)], pts[l(i)])) >= 0)

InitialConcave(pts) ==
    LET n == Len(pts)
        l(i) == ((i + n - 2) % n) + 1
        r(i) == (i % n) + 1
    IN  SelectSeq([i \in 1..n |-> i],
                  LAMBDA i : cross(minus(pts[i], pts[l(i)]), minus(pts[r(i)], pts[l(i)])) < 0)

\* Mutant: the emptiness test looks at the convex set only.
NotAnEarConvexOnly(vertex) ==
    \E testVertex \in SeqToSet(convexVertices) :
        /\ signedDistanceScaled(positions[left[vertex]], positions[right[vertex]],
                                positions[testVertex]) < 0
        /\ testVertex # vertex
        /\ testVertex # left[vertex]
        /\ testVertex # right[vertex]

\* The emptiness test of lines 1009-1021: no test vertex other than the
\* vertex and its neighbours is on the negative side of the plane through
\* vertex.left and vertex.right.
NotAnEar(vertex) ==
    \E testVertex \in SeqToSet(convexVertices) \cup SeqToSet(concaveVertices) :
        /\ signedDistanceScaled(positions[left[vertex]], positions[right[vertex]],
                                positions[testVertex]) < 0
        /\ testVertex # vertex
        /\ testVertex # left[vertex]
        /\ testVertex # right[vertex]

loopVertices == IF Len(convexVertices) = 0 THEN concaveVertices ELSE convexVertices

\* Mutant: the stall fallback of line 1004 is dropped.
skipTestNoStallFallback == Len(convexVertices) = 0

\* Mutant: the test is waived after one stalled pass.
skipTestAfterOneStall == Len(convexVertices) = 0 \/ iterationsWithoutTriangle > 0

skipTest == Len(convexVertices) = 0 \/ iterationsWithoutTriangle > 1

\* Index in loopVertices of the vertex the vertexLoop stops at, 0 when it
\* runs to the end without a triangle.
FoundAt ==
    LET ok == {i \in 1..Len(loopVertices) : skipTest \/ ~NotAnEar(loopVertices[i])}
    IN  IF ok = {} THEN 0 ELSE CHOOSE i \in ok : \A j \in ok : i <= j

\* Mutant: the neighbour is added to its new set and left in the old one.
ReclassifyAddOnly(cv, isConvex, v) ==
    IF isConvex THEN <<SetAdd(cv[1], v), cv[2]>>
                ELSE <<cv[1], SetAdd(cv[2], v)>>

\* Re-classification of a neighbour after the clip (lines 1028-1045).
Reclassify(cv, isConvex, v) ==
    IF isConvex THEN <<SetAdd(cv[1], v), SetDelete(cv[2], v)>>
                ELSE <<SetDelete(cv[1], v), SetAdd(cv[2], v)>>

\* Construction: the linked list and the two sets for an exterior loop.
EarInit(pts) ==
    /\ earPc = IF Len(pts) - 2 > 0 THEN "loop" ELSE "done"
    /\ positions = pts
    /\ left = [i \in 1..Len(pts) |-> ((i + Len(pts) - 2) % Len(pts)) + 1]
    /\ right = [i \in 1..Len(pts) |-> (i % Len(pts)) + 1]
    /\ convexVertices = InitialConvex(pts)
    /\ concaveVertices = InitialConcave(pts)
    /\ remainingTriangles = Len(pts) - 2
    /\ iterationsWithoutTriangle = 0
    /\ triangles = <<>>

\* One pass of `while (remainingTriangles > 0)` that emits a triangle.
EarClip ==
    /\ earPc = "loop"
    /\ FoundAt # 0
    /\ LET vertex == loopVertices[FoundAt]
           l == left[vertex]
           r == right[vertex]
           fromConcave == Len(convexVertices) = 0
           \* loopVertices.delete(vertex)
           cv0 == IF fromConcave
                  THEN <<convexVertices, SetDelete(concaveVertices, vertex)>>
                  ELSE <<SetDelete(convexVertices, vertex), concaveVertices>>
           \* vertex.left.right = vertex.right; vertex.right.left = vertex.left
           newRight == [right EXCEPT ![l] = r]
           newLeft == [left EXCEPT ![r] = l]
           \* vertex.left.left and vertex.right.right are read after the relink
           cv1 == Reclassify(cv0, IsConvexCorner(newLeft[l], l, r), l)
           cv2 == Reclassify(cv1, IsConvexCorner(l, r, newRight[r]), r)
       IN  /\ right' = newRight
           /\ left' = newLeft
           /\ convexVertices' = cv2[1]
           /\ concaveVertices' = cv2[2]
           /\ triangles' = Append(triangles, <<l, vertex, r>>)
           /\ remainingTriangles' = remainingTriangles - 1
           /\ iterationsWithoutTriangle' = 0
           /\ earPc' = IF remainingTriangles - 1 > 0 THEN "loop" ELSE "done"
    /\ UNCHANGED positions
    /\ UNCHANGED notEarVars

\* One pass of the while loop in which no vertex passes the test.
EarStall ==
    /\ earPc = "loop"
    /\ FoundAt = 0
    /\ iterationsWithoutTriangle' = iterationsWithoutTriangle + 1
    /\ UNCHANGED <<earPc, positions, left, right, convexVertices, concaveVertices,
                   remainingTriangles, triangles>>
    /\ UNCHANGED notEarVars

\* The exterior loops the triangulator is run on: every loop of 3..MaxN grid
\* points; loops with repeated points are kept for triangles only.
IsInjective(p) == \A i, j \in 1..Len(p) : i # j => p[i] # p[j]

Exteriors ==
    {p \in UNION {[1..n -> GridPoints] : n \in 3..MaxN} : Len(p) > 3 => IsInjective(p)}

InitEar == NotEarIdle /\ \E pts \in Exteriors : EarInit(pts)

NextEar == EarClip \/ EarStall

SpecEar == InitEar /\ [][NextEar]_vars

-----------------------------------------------------------------------------
(* Plane geometry used to state the triangulation claims *)

Sign(x) == IF x > 0 THEN 1 ELSE IF x < 0 THEN -1 ELSE 0

Orient(a, b, c) == Sign(cross(minus(b, a), minus(c, a)))

InBox(a, b, c) ==
    /\ (IF a[1] < b[1] THEN a[1] ELSE b[1]) <= c[1]
    /\ c[1] <= (IF a[1] < b[1] THEN b[1] ELSE a[1])
    /\ (IF a[2] < b[2] THEN a[2] ELSE b[2]) <= c[2]
    /\ c[2] <= (IF a[2] < b[2] THEN b[2] ELSE a[2])

\* The closed segments pq and rs share a point.
SegmentsMeet(p, q, r, s) ==
    \/ (Orient(p, q, r) # Orient(p, q, s) /\ Orient(r, s, p) # Orient(r, s, q))
    \/ (Orient(p, q, r) = 0 /\ InBox(p, q, r))
    \/ (Orient(p, q, s) = 0 /\ InBox(p, q, s))
    \/ (Orient(r, s, p) = 0 /\ InBox(r, s, p))
    \/ (Orient(r, s, q) = 0 /\ InBox(r, s, q))

\* A simple polygon: distinct vertices, edges that meet only at the shared
\* endpoint of consecutive edges.
IsSimple(pts) ==
    LET n == Len(pts)
        nx(i) == (i % n) + 1
    IN  /\ IsInjective(pts)
        /\ \A i \in 1..n :
              ~(/\ Orient(pts[nx(i)], pts[i], pts[nx(nx(i))]) = 0
                /\ dot(minus(pts[i], pts[nx(i)]), minus(pts[nx(nx(i))], pts[nx(i)])) > 0)
        /\ \A i, j \in 1..n :
              (i < j /\ nx(i) # j /\ nx(j) # i)
                  => ~SegmentsMeet(pts[i], pts[nx(i)], pts[j], pts[nx(j)])

RECURSIVE ShoelaceFrom(_, _)
ShoelaceFrom(pts, i) ==
    IF i > Len(pts) THEN 0
    ELSE cross(pts[i], pts[(i % Len(pts)) + 1]) + ShoelaceFrom(pts, i + 1)

\* Twice the signed area of the polygon (positive: counter-clockwise).
PolygonArea2(pts) == ShoelaceFrom(pts, 1)

\* No three vertices on a line.
GeneralPosition(pts) ==
    \A i, j, k \in 1..Len(pts) : (i < j /\ j < k) => Orient(pts[i], pts[j], pts[k]) # 0

\* Twice the signed area of an emitted triangle (left, vertex, right).
TriangleArea2(t) ==
    cross(minus(positions[t[2]], positions[t[1]]), minus(positions[t[3]], positions[t[1]]))

Abs(x) == IF x < 0 THEN -x ELSE x

RECURSIVE AbsAreaSumFrom(_, _)
AbsAreaSumFrom(ts, i) ==
    IF i > Len(ts) THEN 0 ELSE Abs(TriangleArea2(ts[i])) + AbsAreaSumFrom(ts, i + 1)

\* The point p lies strictly inside the triangle t.
StrictlyInside(p, t) ==
    LET a == positions[t[1]]
        b == positions[t[2]]
        c == positions[t[3]]
        o1 == Orient(a, b, p)
        o2 == Orient(b, c, p)
        o3 == Orient(c, a, p)
    IN  o1 # 0 /\ o1 = o2 /\ o2 = o3

\* Some edge line of triangle s has triangle t weakly on the side away from s.
EdgeSeparates(s, t) ==
    \E e \in {<<1, 2, 3>>, <<2, 3, 1>>, <<3, 1, 2>>} :
        LET a == positions[s[e[1]]]
            b == positions[s[e[2]]]
            c == positions[s[e[3]]]
        IN  \A k \in 1..3 : Orient(a, b, positions[t[k]]) * Orient(a, b, c) <= 0

\* The interiors of the triangles s and t intersect.
TrianglesOverlap(s, t) ==
    /\ TriangleArea2(s) # 0
    /\ TriangleArea2(t) # 0
    /\ ~EdgeSeparates(s, t)
    /\ ~EdgeSeparates(t, s)

-----------------------------------------------------------------------------
(* Claims about the ear-clipping triangulator *)

\* 3 * remainingTriangles - iterationsWithoutTriangle: every pass of the
\* while loop lowers it, and it stays positive while the loop runs.
EarVariant == 3 * remainingTriangles - iterationsWithoutTriangle

EarLoopInv ==
    /\ iterationsWithoutTriangle <= 2
    /\ remainingTriangles >= 0
    /\ Len(triangles) + remainingTriangles = Len(positions) - 2
    /\ (earPc = "loop") = (remainingTriangles > 0)
    /\ earPc = "loop" => (EarVariant > 0 /\ Len(loopVertices) > 0)
    /\ earPc = "done" =>
          /\ Len(triangles) = Len(positions) - 2
          /\ 3 * Len(triangles) = 3 * (Len(positions) - 2)

\* C1: the ear-clipping loop terminates for every exterior loop of n >= 3
\* boundary vertices (degenerate, clockwise and self-intersecting ones
\* included): every pass lowers a variant that is positive while the loop
\* runs, at most two passes in a row emit nothing, and when the loop stops
\* exactly n - 2 triangles (3 * (n - 2) index entries) have been emitted.
C1_EarClippingTerminates ==
    [](EarLoopInv) /\ [][EarVariant' < EarVariant]_earVars

\* C1 witness: the loop has stopped on a self-intersecting loop of MaxN
\* vertices with n - 2 triangles.
C1_Witness ==
    /\ earPc = "done"
    /\ Len(positions) = MaxN
    /\ IsInjective(positions)
    /\ ~IsSimple(positions)
    /\ Len(triangles) = MaxN - 2

\* C2, for counter-clockwise exteriors in general position (the claim also
\* covers the other simple polygons): every triangle (left, vertex, right)
\* emitted for a simple polygon has positive signed area.
C2_TrianglesPositive ==
    (/\ IsSimple(positions)
     /\ PolygonArea2(positions) > 0
     /\ GeneralPosition(positions))
        => \A i \in 1..Len(triangles) : TriangleArea2(triangles[i]) > 0

\* C3, for counter-clockwise exteriors in general position: when the loop
\* stops on a simple polygon the triangles cover it exactly: no two overlap,
\* none has another polygon vertex strictly inside, and their areas sum to
\* the polygon's area.
C3_TrianglesCoverExactly ==
    (/\ earPc = "done"
     /\ IsSimple(positions)
     /\ PolygonArea2(positions) > 0
     /\ GeneralPosition(positions))
        => /\ \A i, j \in 1..Len(triangles) :
                  i < j => ~TrianglesOverlap(triangles[i], triangles[j])
           /\ \A i \in 1..Len(triangles) : \A k \in 1..Len(positions) :
                  ~StrictlyInside(positions[k], triangles[i])
           /\ AbsAreaSumFrom(triangles, 1) = PolygonArea2(positions)

-----------------------------------------------------------------------------
(* ShapeList.createGeometry: inputs and bounds *)

\* Largest number of Path objects (exteriors of shapes and paths together).
MaxPaths == 2

\* Largest number of path commands in the list, inserted MoveTo included.
MaxCommands == 3

\* Points of command destinations and control points.
Destinations == {<<0, 0>>, <<2, 0>>}

\* Signed radii of ArcTo commands (negative: left turn).
Radii == {1, -1}

ZOrders == {0, 1}

\* Tessellation levels in quarters: 0.25 and the default 4.0.
Tessellations == {1, 16}

\* attributeSizes {vertex: 2, vector: 2}; the commands carry no attributes.
VertexSize == 4

Command(kind, dest, radius, c1, c2, zOrder) ==
    [kind |-> kind, dest |-> dest, radius |-> radius, c1 |-> c1, c2 |-> c2,
     zOrder |-> zOrder]

\* The value of `previous` when there is no previous command.
undefinedCommand == Command("undefined", <<0, 0>>, 0, <<0, 0>>, <<0, 0>>, 0)

MoveTo(dest, zOrder) == Command("MoveTo", dest, 0, <<0, 0>>, <<0, 0>>, zOrder)

LineTo(dest, zOrder) == Command("LineTo", dest, 0, <<0, 0>>, <<0, 0>>, zOrder)

ArcTo(dest, radius, zOrder) == Command("ArcTo", dest, radius, <<0, 0>>, <<0, 0>>, zOrder)

CurveTo(dest, c1, c2, zOrder) == Command("CurveTo", dest, 0, c1, c2, zOrder)

DrawCommands ==
    {LineTo(d, z) : d \in Destinations, z \in ZOrders}
        \cup {ArcTo(d[1], d[2], z) : d \in Destinations \X Radii, z \in ZOrders}
        \* the second control point does not enter the number of divisions
        \cup {CurveTo(d[1], d[2], <<2, 0>>, z) : d \in Destinations \X Destinations,
                                                 z \in ZOrders}

-----------------------------------------------------------------------------
(* Numbers of segments *)

\* Math.ceil(n / d) for d > 0.
Ceil(n, d) == -((-n) \div d)

\* Math.sqrt on the squares that occur (the points lie on a grid line).
\* Math.sqrt on the perfect squares the model takes it of.
RECURSIVE SqrtBetween(_, _, _)
SqrtBetween(n, low, high) ==
    IF low = high THEN low
    ELSE LET middle == (low + high + 1) \div 2
         IN  IF middle * middle <= n THEN SqrtBetween(n, middle, high)
             ELSE SqrtBetween(n, low, middle - 1)

Sqrt(n) == SqrtBetween(n, 0, 46340)

distance(from, to) == Sqrt(dot(minus(to, from), minus(to, from)))

clamp(value, min, max) == IF value < min THEN min ELSE IF value > max THEN max ELSE value

\* Math.asin(quarters / 4) in millionths of a radian, rounded towards zero.
asinMicro(quarters) ==
    LET table == <<252680, 523598, 848062, 1570796>>
    IN  IF quarters = 0 THEN 0
        ELSE IF quarters > 0 THEN table[quarters] ELSE -table[-quarters]

\* ArcTo._getArcParameters: <<length in millionths, divisions>>.  height /
\* radius is (chord / 2) / radius, a multiple of 1/4 for the radii 1 and 2;
\* length * tessellation is irrational unless it is 0, so the ceiling of the
\* truncated product is the ceiling of the product.
getArcParameters(command, tessQuarters, previous) ==
    LET chord == distance(previous.dest, command.dest)
        ratioQuarters == clamp((2 * chord * Sign(command.radius)) \div Abs(command.radius), -4, 4)
        length == 2 * command.radius * asinMicro(ratioQuarters)
        divisions == Ceil(length * tessQuarters, 4000000)
    IN  <<length, divisions>>

\* CurveTo._getSplineParameters: <<2 * length, divisions>>.
getSplineParameters(command, tessQuarters, previous) ==
    LET d == previous.dest
        c == minus(command.c1, previous.dest)
        b == minus(command.c2, previous.dest)
        a == minus(minus(minus(command.dest, b), c), d)
        length2 == dot(a, a) + dot(b, b) + 2 * dot(a, b) + 2 * dot(a, c) + 2 * dot(c, b)
        divisions == Ceil(length2 * tessQuarters, 8)
    IN  <<length2, divisions>>

getVerticesForDivisions(divisions, edge) == (IF edge THEN 5 ELSE 8) * divisions

-----------------------------------------------------------------------------
(* First pass: updateStats *)

\* `previous` of the command at position ii (from 1) of a path.
Previous(path, ii) ==
    LET n == Len(path.commands)
    IN  IF path.loop THEN path.commands[((ii - 1 + n - 1) % n) + 1]
        ELSE IF ii = 1 THEN undefinedCommand
        ELSE path.commands[ii - 1]

\* get zOrder() of Path
PathZOrder(path) ==
    IF Len(path.commands) = 0 THEN 0 ELSE path.commands[Len(path.commands)].zOrder

EmptyStats == [vertices |-> 0, indices |-> 0, groups |-> <<>>, error |-> ""]

addToStats(st, command, divisions, edge) ==
    LET end == st.indices + (IF edge THEN 15 ELSE 24) * divisions
    IN  [st EXCEPT !.vertices = @ + getVerticesForDivisions(divisions, edge),
                   !.indices = end,
                   !.groups = Append(@, [start |-> st.indices, end |-> end,
                                         zOrder |-> command.zOrder])]

MissingPrevious == "Missing previous command."

\* updateStats of MoveTo, LineTo, ArcTo and CurveTo.
CommandUpdateStats(st, command, tessQuarters, previous, edge, loop) ==
    CASE command.kind = "MoveTo" ->
            IF loop THEN st ELSE [st EXCEPT !.vertices = @ + 2]
      [] command.kind = "LineTo" ->
            addToStats(st, command, 1, edge)
      [] command.kind = "ArcTo" ->
            IF previous = undefinedCommand THEN [st EXCEPT !.error = MissingPrevious]
            ELSE addToStats(st, command, getArcParameters(command, tessQuarters, previous)[2], edge)
      [] command.kind = "CurveTo" ->
            IF previous = undefinedCommand THEN [st EXCEPT !.error = MissingPrevious]
            ELSE addToStats(st, command, getSplineParameters(command, tessQuarters, previous)[2], edge)

\* Path.updateStats, from command ii on; stops at the first exception.
RECURSIVE PathUpdateStats(_, _, _, _, _)
PathUpdateStats(st, path, ii, tessQuarters, edge) ==
    IF st.error # "" \/ ii > Len(path.commands) THEN st
    ELSE PathUpdateStats(
             CommandUpdateStats(st, path.commands[ii], tessQuarters, Previous(path, ii),
                                edge, path.loop),
             path, ii + 1, tessQuarters, edge)

\* Shape.updateStats
ShapeUpdateStats(st, exterior, tessQuarters) ==
    LET after == PathUpdateStats(st, exterior, 1, tessQuarters, TRUE)
        exteriorVertices == after.vertices - st.vertices
        trianglesCount == (exteriorVertices \div 5) - 2
        end == after.indices + 3 * trianglesCount
    IN  IF after.error # "" THEN after
        ELSE [after EXCEPT !.indices = end,
                           !.groups = Append(@, [start |-> after.indices, end |-> end,
                                                 zOrder |-> PathZOrder(exterior)])]

\* The two loops of the first pass of createGeometry.
RECURSIVE ShapesUpdateStats(_, _, _)
ShapesUpdateStats(st, ii, tessQuarters) ==
    IF st.error # "" \/ ii > Len(shapes) THEN st
    ELSE ShapesUpdateStats(ShapeUpdateStats(st, shapes[ii], tessQuarters), ii + 1, tessQuarters)

RECURSIVE PathsUpdateStats(_, _, _)
PathsUpdateStats(st, ii, tessQuarters) ==
    IF st.error # "" \/ ii > Len(paths) THEN st
    ELSE PathsUpdateStats(PathUpdateStats(st, paths[ii], 1, tessQuarters, FALSE),
                          ii + 1, tessQuarters)

\* Groups j that the stable sort by zOrder places before group i.
RECURSIVE SizeBefore(_, _, _)
SizeBefore(groups, i, j) ==
    IF j > Len(groups) THEN 0
    ELSE (IF \/ groups[j].zOrder < groups[i].zOrder
             \/ (groups[j].zOrder = groups[i].zOrder /\ j < i)
          THEN groups[j].end - groups[j].start ELSE 0)
         + SizeBefore(groups, i, j + 1)

\* "sort groups by increasing z index", "adjust ranges to reorder": the group
\* objects are shared with stats.groups, which keeps the order of creation.
AdjustRanges(groups) ==
    [i \in 1..Len(groups) |->
        [start |-> SizeBefore(groups, i, 1),
         end |-> SizeBefore(groups, i, 1) + (groups[i].end - groups[i].start),
         zOrder |-> groups[i].zOrder]]

-----------------------------------------------------------------------------
(* Second pass: populateBuffers *)

\* The running state of the populate pass: [arrayIndex, groupIndex, writes,
\* error], and of the path being populated firstArrayIndex, vertexCount and
\* loop.  A write to a typed array beyond its length is ignored by the
\* engine; the run is recorded all the same.

\* _writeIndices(elementArrayBuffer, groups[groupIndex++].start, ...): the
\* read of .start fails when groups[groupIndex] is undefined.
writeIndices(pb, groups, edge) ==
    IF pb.groupIndex + 1 > Len(groups) THEN [pb EXCEPT !.error = "TypeError"]
    ELSE [pb EXCEPT !.writes = Append(@, <<groups[pb.groupIndex + 1].start,
                                           IF edge THEN 15 ELSE 24,
                                           pb.firstArrayIndex \div VertexSize,
                                           pb.vertexCount,
                                           (pb.arrayIndex - pb.firstArrayIndex) \div VertexSize,
                                           pb.loop, edge>>),
                    !.groupIndex = @ + 1]

writeVertices(pb, count) == [pb EXCEPT !.arrayIndex = @ + count * VertexSize]

\* The loop `for (let ii = 0; ii < divisions; ii++)` of ArcTo and CurveTo.
RECURSIVE DivisionsLoop(_, _, _, _, _)
DivisionsLoop(pb, groups, edge, ii, divisions) ==
    IF pb.error # "" \/ ii >= divisions THEN pb
    ELSE LET w == writeIndices(pb, groups, edge)
         IN  IF w.error # "" THEN w
             ELSE DivisionsLoop(
                      writeVertices(writeVertices(w, 2),
                                    getVerticesForDivisions(1, edge) - 2),
                      groups, edge, ii + 1, divisions)

\* populateBuffers of MoveTo, LineTo, ArcTo and CurveTo.
CommandPopulateBuffers(pb, command, groups, tessQuarters, loop, edge, previous) ==
    CASE command.kind = "MoveTo" ->
            IF loop THEN pb ELSE writeVertices(pb, 2)
      [] command.kind = "LineTo" ->
            IF previous = undefinedCommand THEN [pb EXCEPT !.error = MissingPrevious]
            ELSE LET w == writeIndices(pb, groups, edge)
                 IN  IF w.error # "" THEN w
                     ELSE writeVertices(writeVertices(w, 2),
                                        getVerticesForDivisions(1, edge) - 2)
      [] command.kind = "ArcTo" ->
            IF previous = undefinedCommand THEN [pb EXCEPT !.error = MissingPrevious]
            ELSE DivisionsLoop(pb, groups, edge, 0,
                               getArcParameters(command, tessQuarters, previous)[2])
      [] command.kind = "CurveTo" ->
            IF previous = undefinedCommand THEN [pb EXCEPT !.error = MissingPrevious]
            ELSE DivisionsLoop(pb, groups, edge, 0,
                               getSplineParameters(command, tessQuarters, previous)[2])

\* The command loop of Path.populateBuffers (lines 190-214).
RECURSIVE PathCommandsPopulate(_, _, _, _, _, _)
PathCommandsPopulate(pb, path, ii, groups, tessQuarters, edge) ==
    IF pb.error # "" \/ ii > Len(path.commands) THEN pb
    ELSE PathCommandsPopulate(
             CommandPopulateBuffers(pb, path.commands[ii], groups, tessQuarters,
                                    path.loop, edge, Previous(path, ii)),
             path, ii + 1, groups, tessQuarters, edge)

\* Path.populateBuffers: the stats of this path only, then the command loop.
\* The vector pass that follows (lines 215-343) writes attributes at offsets
\* it derives itself and leaves arrayIndex and groupIndex alone.
PathPopulateBuffers(pb, path, groups, tessQuarters, edge) ==
    LET own == PathUpdateStats(EmptyStats, path, 1, tessQuarters, edge)
    IN  IF own.error # "" THEN [pb EXCEPT !.error = own.error]
        ELSE PathCommandsPopulate([pb EXCEPT !.firstArrayIndex = pb.arrayIndex,
                                             !.vertexCount = own.vertices,
                                             !.loop = path.loop],
                                  path, 1, groups, tessQuarters, edge)

\* Shape.populateBuffers: the exterior, then one triangle (three slots) per
\* pass of the ear-clipping loop that finds a triangle: vertices.length - 2
\* of them when that is positive.
ShapePopulateBuffers(pb, exterior, groups, tessQuarters) ==
    LET firstIndex == pb.arrayIndex \div VertexSize
        after == PathPopulateBuffers(pb, exterior, groups, tessQuarters, TRUE)
        vertexCount == (after.arrayIndex \div VertexSize) - firstIndex
        verticesLength == Ceil(vertexCount, 5)
    IN  IF after.error # "" THEN after
        ELSE IF after.groupIndex + 1 > Len(groups) THEN [after EXCEPT !.error = "TypeError"]
        ELSE [after EXCEPT
                 !.groupIndex = @ + 1,
                 !.writes = IF verticesLength - 2 > 0
                            THEN Append(@, <<groups[after.groupIndex + 1].start,
                                             3 * (verticesLength - 2),
                                             firstIndex, vertexCount, -1, TRUE, TRUE>>)
                            ELSE @]

-----------------------------------------------------------------------------
(* Building a ShapeList and running createGeometry *)

CommandCount ==
    LET RECURSIVE Total(_, _)
        Total(list, i) == IF i > Len(list) THEN 0
                          ELSE Len(list[i].commands) + Total(list, i + 1)
    IN  Total(shapes, 1) + Total(paths, 1)

CurrentPath ==
    IF current = "shape" THEN shapes[Len(shapes)] ELSE paths[Len(paths)]

\* _ensureStartPosition followed by commands.push(command)
WithCommand(path, command) ==
    [path EXCEPT !.commands =
        IF Len(@) = 0 /\ command.kind # "MoveTo"
        THEN <<MoveTo(<<0, 0>>, command.zOrder), command>>
        ELSE Append(@, command)]

SetCurrentPath(path) ==
    IF current = "shape"
    THEN /\ shapes' = [shapes EXCEPT ![Len(shapes)] = path]
         /\ UNCHANGED paths
    ELSE /\ paths' = [paths EXCEPT ![Len(paths)] = path]
         /\ UNCHANGED shapes

buildUnchanged == <<tessellation, stats, arrayIndex, groupIndex, elementWrites,
                    populated, error>>

\* new Path(loop), put in the paths of the list.
NewPath(loop) ==
    /\ geomPc = "build"
    /\ Len(shapes) + Len(paths) < MaxPaths
    /\ paths' = Append(paths, [loop |-> loop, commands |-> <<>>])
    /\ current' = "path"
    /\ UNCHANGED <<geomPc, shapes, viaApi, buildUnchanged, notGeomVars>>

\* new Shape(new Path()), put in the shapes of the list: the constructor
\* makes the exterior a loop.
NewShape ==
    /\ geomPc = "build"
    /\ Len(shapes) + Len(paths) < MaxPaths
    /\ shapes' = Append(shapes, [loop |-> TRUE, commands |-> <<>>])
    /\ current' = "shape"
    /\ UNCHANGED <<geomPc, paths, viaApi, buildUnchanged, notGeomVars>>

\* Path.moveTo
PathMoveTo(dest, zOrder) ==
    /\ geomPc = "build"
    /\ current # "none"
    /\ CommandCount + 1 <= MaxCommands
    /\ SetCurrentPath(WithCommand(CurrentPath, MoveTo(dest, zOrder)))
    /\ UNCHANGED <<geomPc, current, viaApi, buildUnchanged, notGeomVars>>

\* Path.lineTo, Path.arcTo, Path.curveTo
PathDrawTo(command) ==
    /\ geomPc = "build"
    /\ current # "none"
    /\ CommandCount + (IF Len(CurrentPath.commands) = 0 THEN 2 ELSE 1) <= MaxCommands
    /\ SetCurrentPath(WithCommand(CurrentPath, command))
    /\ UNCHANGED <<geomPc, current, viaApi, buildUnchanged, notGeomVars>>

\* path.commands.push(command) on an empty path that is not a loop, past the
\* Path methods: the only way to a drawing command that has no previous
\* command (in a loop the previous of the first command is the last one).
PushCommand(command) ==
    /\ geomPc = "build"
    /\ current = "path"
    /\ ~CurrentPath.loop
    /\ Len(CurrentPath.commands) = 0
    /\ CommandCount + 1 <= MaxCommands
    /\ SetCurrentPath([CurrentPath EXCEPT !.commands = <<command>>])
    /\ viaApi' = FALSE
    /\ UNCHANGED <<geomPc, current, buildUnchanged, notGeomVars>>

\* createGeometry(tessellation), lines 1337-1373: the first pass, the
\* re-ordering of the groups and the allocation of the two typed arrays.
CreateGeometryStats(tessQuarters) ==
    /\ geomPc = "build"
    /\ tessellation' = tessQuarters
    /\ LET counted == PathsUpdateStats(ShapesUpdateStats(EmptyStats, 1, tessQuarters),
                                       1, tessQuarters)
           sorted == [counted EXCEPT !.groups = AdjustRanges(@)]
       IN  IF counted.error # ""
           THEN /\ stats' = counted
                /\ error' = counted.error
                /\ geomPc' = "thrown"
           ELSE /\ stats' = sorted
                \* new Float32Array(n), new Uint32Array(n) with n < 0
                /\ error' = IF sorted.vertices * VertexSize < 0 \/ sorted.indices < 0
                            THEN "RangeError" ELSE ""
                /\ geomPc' = IF sorted.vertices * VertexSize < 0 \/ sorted.indices < 0
                             THEN "thrown" ELSE "populate"
    /\ UNCHANGED <<shapes, paths, current, viaApi, arrayIndex, groupIndex,
                   elementWrites, populated, notGeomVars>>

Populating == [arrayIndex |-> arrayIndex, groupIndex |-> groupIndex,
               writes |-> elementWrites, error |-> "",
               firstArrayIndex |-> arrayIndex, vertexCount |-> 0, loop |-> FALSE]

AfterPopulate(pb) ==
    /\ arrayIndex' = pb.arrayIndex
    /\ groupIndex' = pb.groupIndex
    /\ elementWrites' = pb.writes
    /\ error' = pb.error
    /\ populated' = populated + 1
    /\ geomPc' = IF pb.error # "" THEN "thrown" ELSE "populate"
    /\ UNCHANGED <<shapes, paths, current, viaApi, tessellation, stats, notGeomVars>>

\* One pass of `for (const shape of this.shapes)`, lines 1376-1387.
PopulateShape ==
    /\ geomPc = "populate"
    /\ populated < Len(shapes)
    /\ AfterPopulate(ShapePopulateBuffers(Populating, shapes[populated + 1],
                                          stats.groups, tessellation))

\* One pass of `for (const path of this.paths)`, lines 1388-1400.
PopulatePath ==
    /\ geomPc = "populate"
    /\ populated >= Len(shapes)
    /\ populated < Len(shapes) + Len(paths)
    /\ AfterPopulate(PathPopulateBuffers(Populating, paths[populated - Len(shapes) + 1],
                                         stats.groups, tessellation, FALSE))

\* return [arrayBuffer, elementArrayBuffer, stats.attributeSizes]
CreateGeometryReturn ==
    /\ geomPc = "populate"
    /\ populated = Len(shapes) + Len(paths)
    /\ geomPc' = "done"
    /\ UNCHANGED <<shapes, paths, current, viaApi, tessellation, stats, arrayIndex,
                   groupIndex, elementWrites, populated, error, notGeomVars>>

InitGeom ==
    /\ NotGeomIdle
    /\ geomPc = "build"
    /\ shapes = <<>>
    /\ paths = <<>>
    /\ current = "none"
    /\ viaApi = TRUE
    /\ tessellation = 0
    /\ stats = EmptyStats
    /\ arrayIndex = 0
    /\ groupIndex = 0
    /\ elementWrites = <<>>
    /\ populated = 0
    /\ error = ""

NextGeom ==
    \/ \E loop \in BOOLEAN : NewPath(loop)
    \/ NewShape
    \/ \E dest \in Destinations, zOrder \in ZOrders : PathMoveTo(dest, zOrder)
    \/ \E command \in DrawCommands : PathDrawTo(command)
    \/ \E command \in DrawCommands : PushCommand(command)
    \/ \E tessQuarters \in Tessellations : CreateGeometryStats(tessQuarters)
    \/ PopulateShape
    \/ PopulatePath
    \/ CreateGeometryReturn

SpecGeom == InitGeom /\ [][NextGeom]_vars

-----------------------------------------------------------------------------
(* Claims about createGeometry *)

\* Number of recorded runs that wrote the slot.
TimesWritten(slot) ==
    Cardinality({i \in 1..Len(elementWrites) :
                    /\ elementWrites[i][1] <= slot
                    /\ slot < elementWrites[i][1] + elementWrites[i][2]})

\* C4: createGeometry is two-pass: when it returns for a list built through
\* the Path/ShapeList API, the vertex write offset is stats.vertices *
\* vertexSize, every one of the stats.indices slots of the element buffer was
\* written exactly once and no write fell outside the buffer.
C4_TwoPassExact ==
    (geomPc = "done" /\ viaApi)
        => /\ arrayIndex = stats.vertices * VertexSize
           /\ \A slot \in 0..(stats.indices - 1) : TimesWritten(slot) = 1
           /\ \A i \in 1..Len(elementWrites) :
                  elementWrites[i][1] + elementWrites[i][2] <= stats.indices

\* Some LineTo, ArcTo or CurveTo of the list has no previous command.
HasMissingPrevious ==
    \E i \in 1..Len(paths) : \E ii \in 1..Len(paths[i].commands) :
        /\ paths[i].commands[ii].kind # "MoveTo"
        /\ Previous(paths[i], ii) = undefinedCommand

\* C5: when a LineTo, ArcTo or CurveTo of a path has no previous command,
\* createGeometry ends with the exception 'Missing previous command.' and
\* returns no buffers.
C5_MissingPreviousThrown ==
    (HasMissingPrevious /\ geomPc \in {"done", "thrown"})
        => (geomPc = "thrown" /\ error = MissingPrevious)

\* The ArcTo commands of the list, each with its previous command.
ArcsWithPrevious ==
    LET all == [i \in 1..(Len(shapes) + Len(paths)) |->
                   IF i <= Len(shapes) THEN shapes[i] ELSE paths[i - Len(shapes)]]
    IN  {<<all[i].commands[ii], Previous(all[i], ii)>> :
            <<i, ii>> \in {pr \in (1..Len(all)) \X (1..MaxCommands) :
                              /\ pr[2] <= Len(all[pr[1]].commands)
                              /\ all[pr[1]].commands[pr[2]].kind = "ArcTo"
                              /\ Previous(all[pr[1]], pr[2]) # undefinedCommand}}

\* C6: once the stats pass has run, every ArcTo has at least one division,
\* and an ArcTo whose destination is its start point has exactly one.
C6_ArcDivisionsAtLeastOne ==
    geomPc \in {"populate", "done", "thrown"}
        => \A arc \in ArcsWithPrevious :
              LET divisions == getArcParameters(arc[1], tessellation, arc[2])[2]
              IN  /\ divisions >= 1
                  /\ arc[1].dest = arc[2].dest => divisions = 1

-----------------------------------------------------------------------------
(* Path.populateBuffers: the vector pass (lines 215-343) *)

\* Numbers.  The unit normals and the intersection points are irrational; the
\* model keeps the direction of each unit vector as an integer vector (the
\* zero vector stands for itself: normalize() maps it to itself) and, of each
\* intersection point, whether it is finite.  A quotient is non-finite when its
\* divisor is 0 or an operand is NaN.  Math.acos gives NaN when the rounded dot
\* product of two parallel unit normals leaves [-1, 1], and the rounded cross
\* product of two parallel unit normals may leave a residue instead of 0: both
\* are choices of the step.

\* Largest number of points of the polyline of a path (the MoveTo and the
\* LineTo commands after it).
MaxPoints == 3

negative(vector) == <<-vector[1], -vector[2]>>

Min(a, b) == IF a < b THEN a ELSE b

Replicate(x, n) == [i \in 1..n |-> x]

\* The vertices LineTo.populateBuffers writes for the points from i on: two at
\* previous.dest, then _getVerticesForDivisions(1, edge) - 2 at dest.
RECURSIVE SpanVertices(_, _, _)
SpanVertices(points, i, edge) ==
    IF i > Len(points) THEN <<>>
    ELSE Replicate(points[i - 1], 2)
             \o Replicate(points[i], getVerticesForDivisions(1, edge) - 2)
             \o SpanVertices(points, i + 1, edge)

\* The vertices of the path MoveTo(points[1]), LineTo(points[2]), ...: the
\* MoveTo writes two vertices unless the path is a loop.
PathVertices(points, loop, edge) ==
    (IF loop THEN <<>> ELSE Replicate(points[1], 2)) \o SpanVertices(points, 2, edge)

vertexCount == Len(vertexBuffer)

\* vec2(arrayBuffer[i], arrayBuffer[i + 1], ...) for the position of a vertex:
\* past the vertices of this path the buffer still holds zeros, and past the
\* buffer the reads give undefined, for which vec2 takes its defaults 0.
ReadVertex(index) ==
    IF index < vertexCount THEN vertexBuffer[index + 1] ELSE <<0, 0>>

\* A plane: the direction of its unit normal, and whether its constant is a
\* finite number.
Plane(normal, constantFinite) == [normal |-> normal, constantFinite |-> constantFinite]

\* A point: an intersection of two planes, or `to` offset by a unit vector.
IntersectionPoint(finite) == [kind |-> "intersection", dir |-> <<0, 0>>, finite |-> finite]

OffsetPoint(dir) == [kind |-> "offset", dir |-> dir, finite |-> TRUE]

\* planeIntersection: x and y are quotients by
\* first.normal.x * second.normal.y - first.normal.y * second.normal.x.
planeIntersection(first, second, residue) ==
    LET divisorIsZero == cross(first.normal, second.normal) = 0 /\ ~residue
    IN  IntersectionPoint(first.constantFinite /\ second.constantFinite /\ ~divisorIsZero)

\* Mutant: the test of lines 295-300 and 327-332 never fires.
isFiniteVectorAlways(vector) == TRUE

isFiniteVector(vector) == vector.finite

\* The attribute value to - point, with the outcome of the intersection it
\* came from.
ToMinus(point, intersection) ==
    IF point.kind = "offset"
    THEN [kind |-> "vector", dir |-> negative(point.dir), finite |-> TRUE,
          intersection |-> IF intersection.finite THEN "finite" ELSE "non-finite"]
    ELSE [kind |-> "miter", dir |-> <<0, 0>>, finite |-> point.finite,
          intersection |-> IF intersection.finite THEN "finite" ELSE "non-finite"]

\* The attribute value of a unit (or zero) vector.
UnitAttribute(dir) == [kind |-> "vector", dir |-> dir, finite |-> TRUE, intersection |-> "none"]

Unwritten == [kind |-> "unwritten", dir |-> <<0, 0>>, finite |-> TRUE, intersection |-> "none"]

\* The values one pass of the loop writes to the vertices offsetVertex,
\* offsetVertex + 1, ...: five for an edge, else eight.
CornerAttributes(from, to, next, edge, acosRounds, residue1, residue2) ==
    LET fromTo == minus(to, from)
        vector == orthogonalize(fromTo)
        fromToNormal == orthogonalize(minus(to, from))
        toNextNormal == orthogonalize(minus(next, to))
        fromNextNormal == orthogonalize(minus(next, from))
        \* Math.acos(dot(fromToPlane.normal, toNextPlane.normal))
        angleIsNaN == acosRounds
        \* 1.0 / Math.max(Math.cos(halfAngle), Math.sin(halfAngle))
        distanceFinite == ~angleIsNaN
        fromToPlane == Plane(fromToNormal, TRUE)
        toNextPlane == Plane(toNextNormal, TRUE)
        fromNextPlane == Plane(fromNextNormal, distanceFinite)
        fromToFromNext == planeIntersection(fromToPlane, fromNextPlane, residue1)
        toNextFromNext == planeIntersection(toNextPlane, fromNextPlane, residue2)
        outer(point) == IF ~isFiniteVector(point) THEN OffsetPoint(negative(vector)) ELSE point
        inner(point) == IF ~isFiniteVector(point) THEN OffsetPoint(vector) ELSE point
        first == <<IF edge THEN [UnitAttribute(<<0, 0>>) EXCEPT !.kind = "zero"]
                   ELSE UnitAttribute(negative(vector)),
                   UnitAttribute(vector),
                   UnitAttribute(vector),
                   ToMinus(outer(fromToFromNext), fromToFromNext),
                   ToMinus(outer(toNextFromNext), toNextFromNext)>>
    IN  IF edge THEN first
        ELSE first \o <<UnitAttribute(negative(vector)),
                        ToMinus(inner(fromToFromNext), fromToFromNext),
                        ToMinus(inner(toNextFromNext), toNextFromNext)>>

\* The roundings that can differ from the exact value at a corner: each
\* concerns a pair of parallel unit normals.
Parallel(first, second) ==
    first # <<0, 0>> /\ second # <<0, 0>> /\ cross(first, second) = 0

Roundings(from, to, next) ==
    LET fromToNormal == orthogonalize(minus(to, from))
        toNextNormal == orthogonalize(minus(next, to))
        fromNextNormal == orthogonalize(minus(next, from))
    IN  {r \in BOOLEAN \X BOOLEAN \X BOOLEAN :
            /\ r[1] => Parallel(fromToNormal, toNextNormal)
            /\ r[2] => Parallel(fromToNormal, fromNextNormal)
            /\ r[3] => Parallel(toNextNormal, fromNextNormal)}

\* One pass of the loop of lines 230-343.
MiterCorner ==
    /\ miterPc = "loop"
    /\ vertexOffset < vertexCount
    /\ LET vertexSpan == IF miterEdge THEN 5 ELSE 8
           maxVertex == vertexCount - 1
           from == ReadVertex(vertexOffset)
           to == ReadVertex(vertexOffset + vertexSpan - 1)
           nextIndex == IF miterLoop THEN (vertexOffset + vertexSpan * 2) % vertexCount
                        ELSE Min(vertexOffset + vertexSpan * 2, maxVertex)
           next == ReadVertex(nextIndex)
       IN  \E rounding \in Roundings(from, to, next) :
               LET written == CornerAttributes(from, to, next, miterEdge, rounding[1],
                                               rounding[2], rounding[3])
               IN  /\ vectorAttributes' =
                          [v \in DOMAIN vectorAttributes |->
                              IF v >= vertexOffset /\ v < vertexOffset + Len(written)
                              THEN written[v - vertexOffset + 1] ELSE vectorAttributes[v]]
                   /\ vertexOffset' = vertexOffset + vertexSpan
    /\ UNCHANGED <<miterPc, miterLoop, miterEdge, vertexBuffer, notMiterVars>>

\* The loop condition fails: return [arrayIndex, groupIndex].
MiterReturn ==
    /\ miterPc = "loop"
    /\ vertexOffset >= vertexCount
    /\ miterPc' = "done"
    /\ UNCHANGED <<miterLoop, miterEdge, vertexBuffer, vertexOffset, vectorAttributes,
                   notMiterVars>>

\* The paths the pass is run on: a path (loop or not) or the exterior of a
\* shape (a loop, with edge set), of 1..MaxPoints grid points.
InitMiter ==
    /\ NotMiterIdle
    /\ miterPc = "loop"
    /\ \E points \in UNION {[1..n -> GridPoints] : n \in 1..MaxPoints} :
       \E config \in {<<FALSE, FALSE>>, <<TRUE, FALSE>>, <<TRUE, TRUE>>} :
           /\ miterLoop = config[1]
           /\ miterEdge = config[2]
           /\ vertexBuffer = PathVertices(points, config[1], config[2])
           /\ vectorAttributes =
                  [v \in 0..(Len(PathVertices(points, config[1], config[2])) + 7) |-> Unwritten]
    /\ vertexOffset = 0

NextMiter ==
    \/ MiterCorner
    \/ MiterReturn

SpecMiter == InitMiter /\ [][NextMiter]_vars

\* C7: every vector attribute the pass writes is finite, and wherever a plane
\* intersection of a corner was non-finite (parallel planes, as at a 180
\* degree turn, a zero-length span, or a NaN distance) the value written is
\* the perpendicular unit offset; the vertex coordinates are the finite
\* positions the commands wrote.
C7_MiterFallbackFinite ==
    /\ \A v \in DOMAIN vectorAttributes :
          /\ vectorAttributes[v].finite
          /\ vectorAttributes[v].intersection = "non-finite"
                => vectorAttributes[v].kind = "vector"
    /\ \A i \in 1..Len(vertexBuffer) : vertexBuffer[i] \in GridPoints

\* C7 witness: the pass has finished on a path that turns by 180 degrees
\* (from p to q and back to p, p # q), a corner intersection was non-finite
\* there and the unit offset was written in its place.
C7_Witness ==
    /\ miterPc = "done"
    /\ ~miterLoop
    /\ Len(vertexBuffer) = 18
    /\ vertexBuffer[1] = vertexBuffer[18]
    /\ vertexBuffer[1] # vertexBuffer[10]
    /\ \E v \in 0..7 :
          /\ vectorAttributes[v].intersection = "non-finite"
          /\ vectorAttributes[v].kind = "vector"
          /\ vectorAttributes[v].dir # <<0, 0>>

-----------------------------------------------------------------------------
(* CollisionGeometry (src/src/server/store/collision.js) *)

\* Coordinates and thicknesses of the collision model are integers counting
\* thousandths of a unit, so that the offsets of 0.001 the point queries use
\* are exact.  Every span of the model's geometries and every edge of its query
\* polygons is parallel to an axis: the length Math.sqrt(squareLength) of such
\* a span is an integer and dp and cp are multiples of it, so the comparisons
\* below are exact.  A comparison distance(a, b) <= thickness between
\* non-negative numbers is made on the squares.

Thicknesses == {2, 200, 1000}

Vertex(x, y, thickness) == [position |-> <<x, y>>, thickness |-> thickness]

CollisionPath(firstIndex, lastIndex, loop) ==
    [firstIndex |-> firstIndex, lastIndex |-> lastIndex, loop |-> loop]

CollisionPolygon(indices) == [indices |-> indices]

\* _getVertexThickness(index, vertex): the record holds both the position it
\* stores into vertex and the thickness it returns (indices count from 0).
getVertexThickness(index) == collisionBuffer[index + 1]

squareDistance(from, to) == dot(minus(to, from), minus(to, from))

\* distance(first, second) <= bound
DistanceAtMost(first, second, bound) ==
    bound >= 0 /\ squareDistance(first, second) <= bound * bound

\* The test of one span with half the thickness, as a stroke drawn thickness
\* wide would need it.
WithinSpanHalfThickness(point, fromVertex, toVertex, offset) ==
    LET from == fromVertex.position
        to == toVertex.position
        v1 == minus(point, from)
        v2 == minus(to, from)
        squareLength == squareDistance(from, to)
        dp == dot(v1, v2)
    IN  IF dp <= 0 THEN DistanceAtMost(point, from, fromVertex.thickness \div 2)
        ELSE IF dp >= squareLength
             THEN DistanceAtMost(point, to, toVertex.thickness \div 2)
        ELSE LET length == Sqrt(squareLength)
             IN  2 * offset <= fromVertex.thickness * length
                               + (dp \div length) * (toVertex.thickness - fromVertex.thickness)

\* The three-way test intersectsPoint makes on a span (lines 85-99) and on a
\* polygon edge (lines 114-128); offset is Math.abs(cross(v1, v2)) for a span
\* and cp for an edge.  The last branch is
\*     offset <= mix(fromThickness, toThickness, dp / squareLength)
\*                  * Math.sqrt(squareLength)
\* with mix (start + parameter * (end - start)) multiplied out:
\* (dp / squareLength) * Math.sqrt(squareLength) is dp divided by the length.
WithinSpan(point, fromVertex, toVertex, offset) ==
    LET from == fromVertex.position
        to == toVertex.position
        v1 == minus(point, from)
        v2 == minus(to, from)
        squareLength == squareDistance(from, to)
        dp == dot(v1, v2)
    IN  IF dp <= 0 THEN DistanceAtMost(point, from, fromVertex.thickness)
        ELSE IF dp >= squareLength
             THEN DistanceAtMost(point, to, toVertex.thickness)
        ELSE LET length == Sqrt(squareLength)
             IN  offset <= fromVertex.thickness * length
                           + (dp \div length) * (toVertex.thickness - fromVertex.thickness)

\* One path of intersectsPoint's first loop (lines 65-100).
PathIntersectsPoint(path, point) ==
    IF path.lastIndex = path.firstIndex + 1
    THEN LET vertex == getVertexThickness(path.firstIndex)
         IN  DistanceAtMost(point, vertex.position, vertex.thickness)
    ELSE LET finalIndex == path.lastIndex - 1
             endIndex == IF path.loop THEN path.lastIndex ELSE finalIndex
         IN  \E fromIndex \in path.firstIndex..(endIndex - 1) :
                LET toIndex == IF fromIndex = finalIndex THEN path.firstIndex
                               ELSE fromIndex + 1
                    fromVertex == getVertexThickness(fromIndex)
                    toVertex == getVertexThickness(toIndex)
                    v1 == minus(point, fromVertex.position)
                    v2 == minus(toVertex.position, fromVertex.position)
                IN  WithinSpan(point, fromVertex, toVertex, Abs(cross(v1, v2)))

\* One polygon of polygonLoop (lines 102-133): the first edge that has the
\* point on its outer side decides; with no such edge the point is inside.
PolygonIntersectsPoint(polygon, point) ==
    LET count == Len(polygon.indices)
        fromVertexAt(ii) == getVertexThickness(polygon.indices[ii + 1])
        toVertexAt(ii) == getVertexThickness(polygon.indices[((ii + 1) % count) + 1])
        cpAt(ii) == cross(minus(point, fromVertexAt(ii).position),
                          minus(toVertexAt(ii).position, fromVertexAt(ii).position))
        outer == {ii \in 0..(count - 1) : cpAt(ii) >= 0}
    IN  IF outer = {} THEN TRUE
        ELSE LET ii == CHOOSE jj \in outer : \A kk \in outer : jj <= kk
             IN  WithinSpan(point, fromVertexAt(ii), toVertexAt(ii), cpAt(ii))

intersectsPoint(point) ==
    \/ \E pp \in 1..Len(collisionPaths) : PathIntersectsPoint(collisionPaths[pp], point)
    \/ \E gg \in 1..Len(collisionPolygons) :
          PolygonIntersectsPoint(collisionPolygons[gg], point)

\* The square of the distance getPolygonDistance(points, vertex) returns.
getPolygonSquareDistance(points, vertex) ==
    LET count == Len(points)
        fromAt(ii) == points[ii + 1]
        toAt(ii) == points[((ii + 1) % count) + 1]
        cpAt(ii) == cross(minus(vertex, fromAt(ii)), minus(toAt(ii), fromAt(ii)))
        outer == {ii \in 0..(count - 1) : cpAt(ii) >= 0}
    IN  IF outer = {} THEN 0
        ELSE LET ii == CHOOSE jj \in outer : \A kk \in outer : jj <= kk
                 from == fromAt(ii)
                 to == toAt(ii)
                 squareLength == squareDistance(from, to)
                 dp == dot(minus(vertex, from), minus(to, from))
             IN  IF dp <= 0 THEN squareDistance(vertex, from)
                 ELSE IF dp >= squareLength THEN squareDistance(vertex, to)
                 ELSE LET perpendicular == cpAt(ii) \div Sqrt(squareLength)
                      IN  perpendicular * perpendicular

\* Multi-vertex paths are skipped and the loop over the polygons has an empty
\* body (lines 144-156).
intersectsConvexPolygon(points) ==
    \E pp \in 1..Len(collisionPaths) :
        LET path == collisionPaths[pp]
        IN  /\ path.lastIndex = path.firstIndex + 1
            /\ LET vertex == getVertexThickness(path.firstIndex)
               IN  /\ vertex.thickness >= 0
                   /\ getPolygonSquareDistance(points, vertex.position)
                          <= vertex.thickness * vertex.thickness

\* The geometries the queries run on, with side 10 (10000 thousandths).
SpanGeometry(th) ==
    [buffer |-> <<Vertex(0, 0, th), Vertex(10000, 0, th)>>,
     paths |-> <<CollisionPath(0, 2, FALSE)>>,
     polygons |-> <<>>]

TaperedGeometry(th) ==
    [buffer |-> <<Vertex(0, 0, th), Vertex(10000, 0, 2 * th)>>,
     paths |-> <<CollisionPath(0, 2, FALSE)>>,
     polygons |-> <<>>]

PointGeometry(th) ==
    [buffer |-> <<Vertex(5000, 0, th)>>,
     paths |-> <<CollisionPath(0, 1, FALSE)>>,
     polygons |-> <<>>]

SquareCorners(th) ==
    <<Vertex(0, 0, th), Vertex(10000, 0, th), Vertex(10000, 10000, th),
      Vertex(0, 10000, th)>>

LoopGeometry(th) ==
    [buffer |-> SquareCorners(th),
     paths |-> <<CollisionPath(0, 4, TRUE)>>,
     polygons |-> <<>>]

PolygonGeometry(th) ==
    [buffer |-> SquareCorners(th),
     paths |-> <<>>,
     polygons |-> <<CollisionPolygon(<<0, 1, 2, 3>>)>>]

MixedGeometry(th) ==
    [buffer |-> <<Vertex(5000, 5000, th), Vertex(0, 0, th), Vertex(10000, 0, th)>>,
     paths |-> <<CollisionPath(0, 1, FALSE), CollisionPath(1, 3, FALSE)>>,
     polygons |-> <<>>]

Geometries ==
    UNION {{SpanGeometry(th), TaperedGeometry(th), PointGeometry(th), LoopGeometry(th),
            PolygonGeometry(th), MixedGeometry(th)} : th \in Thicknesses}

QueryOffsets ==
    {0, 5000} \cup
    UNION {{sign * (th \div 2 + eps), sign * (th + eps)} :
              <<th, eps, sign>> \in Thicknesses \X {-1, 1} \X {-1, 1}}

QueryPoints == {-500, 0, 5000, 10000, 10500} \X QueryOffsets

\* A query rectangle parallel to the axes, anticlockwise from its minimum corner.
Rectangle(xs, ys) ==
    <<<<xs[1], ys[1]>>, <<xs[2], ys[1]>>, <<xs[2], ys[2]>>, <<xs[1], ys[2]>>>>

QueryPolygons ==
    {Rectangle(xs, ys) :
        <<xs, ys>> \in {<<4000, 6000>>, <<10100, 10900>>, <<-3000, -1500>>}
                       \X {<<-100, 100>>, <<150, 400>>, <<1500, 3000>>, <<4900, 5100>>}}

CollisionInit ==
    /\ collisionPc = "ready"
    /\ \E geometry \in Geometries :
          /\ collisionBuffer = geometry.buffer
          /\ collisionPaths = geometry.paths
          /\ collisionPolygons = geometry.polygons
    /\ query = [kind |-> "none"]
    /\ result = FALSE

IntersectsPoint ==
    /\ collisionPc \in {"ready", "answered"}
    /\ \E point \in QueryPoints :
          /\ query' = [kind |-> "point", point |-> point]
          /\ result' = intersectsPoint(point)
    /\ collisionPc' = "answered"
    /\ UNCHANGED <<collisionBuffer, collisionPaths, collisionPolygons, notCollisionVars>>

IntersectsConvexPolygon ==
    /\ collisionPc \in {"ready", "answered"}
    /\ \E points \in QueryPolygons :
          /\ query' = [kind |-> "polygon", points |-> points]
          /\ result' = intersectsConvexPolygon(points)
    /\ collisionPc' = "answered"
    /\ UNCHANGED <<collisionBuffer, collisionPaths, collisionPolygons, notCollisionVars>>

InitCollision == NotCollisionIdle /\ CollisionInit

NextCollision == IntersectsPoint \/ IntersectsConvexPolygon

SpecCollision == InitCollision /\ [][NextCollision]_vars

Geometry ==
    [buffer |-> collisionBuffer, paths |-> collisionPaths, polygons |-> collisionPolygons]

Max(a, b) == IF a > b THEN a ELSE b

BoxOf(points) ==
    LET xs == {points[i][1] : i \in DOMAIN points}
        ys == {points[i][2] : i \in DOMAIN points}
        Least(S) == CHOOSE m \in S : \A o \in S : m <= o
        Greatest(S) == CHOOSE m \in S : \A o \in S : m >= o
    IN  [min |-> <<Least(xs), Least(ys)>>, max |-> <<Greatest(xs), Greatest(ys)>>]

\* The square of the distance between two boxes (0 when they meet).
BoxSquareDistance(a, b) ==
    LET gap(k) == Max(0, Max(a.min[k] - b.max[k], b.min[k] - a.max[k]))
    IN  gap(1) * gap(1) + gap(2) * gap(2)

\* The query rectangle comes within the thickness of a span of a path, of a
\* single-point path or of a polygon entry.  The geometry has one thickness
\* throughout, its spans are parallel to the axes and its polygon entries are
\* rectangles, so each of them is a box.
OverlapsStroke(points) ==
    LET box == BoxOf(points)
        th == collisionBuffer[1].thickness
        Near(indices) ==
            BoxSquareDistance(box, BoxOf([i \in DOMAIN indices |->
                                            getVertexThickness(indices[i]).position]))
                <= th * th
    IN  \/ \E pp \in 1..Len(collisionPaths) :
              LET path == collisionPaths[pp]
                  finalIndex == path.lastIndex - 1
              IN  IF path.lastIndex = path.firstIndex + 1
                  THEN Near(<<path.firstIndex>>)
                  ELSE \/ \E fromIndex \in path.firstIndex..(finalIndex - 1) :
                             Near(<<fromIndex, fromIndex + 1>>)
                       \/ path.loop /\ Near(<<finalIndex, path.firstIndex>>)
        \/ \E gg \in 1..Len(collisionPolygons) : Near(collisionPolygons[gg].indices)

UniformThickness ==
    \A i, j \in DOMAIN collisionBuffer :
        collisionBuffer[i].thickness = collisionBuffer[j].thickness

\* C9: intersectsConvexPolygon(points) is true exactly when the query polygon
\* overlaps the stroke of a span of a path (single-point or multi-vertex) or a
\* polygon entry of the geometry.
C9_ConvexPolygonOverlap ==
    (collisionPc = "answered" /\ query.kind = "polygon" /\ UniformThickness)
        => (result <=> OverlapsStroke(query.points))

\* On single-point paths the two agree.
PointPathOverlap ==
    (collisionPc = "answered" /\ query.kind = "polygon"
        /\ \E th \in Thicknesses : Geometry = PointGeometry(th))
        => (result <=> OverlapsStroke(query.points))

-----------------------------------------------------------------------------
(* Transforms (src/src/server/store/math.js, and the copy of the same
   functions in src/src/server/store/geometry.js) *)

\* A transform is null or an object whose fields translation, rotation, scale
\* and matrix may each be absent: an absent field is the empty sequence, a
\* present rotation is <<quarter turns>>.  Math.cos and Math.sin of a
\* quarter turn are taken as their exact values.  Matrices are sequences of
\* nine numbers, column by column; m[i] of the code is matrix[i + 1].

nullTransform ==
    [isNull |-> TRUE, translation |-> <<>>, rotation |-> <<>>, scale |-> <<>>,
     matrix |-> <<>>]

Transform(translation, rotation, scale, matrix) ==
    [isNull |-> FALSE, translation |-> translation, rotation |-> rotation,
     scale |-> scale, matrix |-> matrix]

IDENTITY_MATRIX == <<1, 0, 0, 0, 1, 0, 0, 0, 1>>

cos(quarterTurns) == <<1, 0, -1, 0>>[(quarterTurns % 4) + 1]

sin(quarterTurns) == <<0, 1, 0, -1>>[(quarterTurns % 4) + 1]

\* getTransformMatrix of math.js; the matrix it stores into transform.matrix
\* is the one it returns.
getTransformMatrix(transform) ==
    IF transform.isNull THEN IDENTITY_MATRIX
    ELSE IF transform.matrix # <<>> THEN transform.matrix
    ELSE LET tx == IF transform.translation # <<>> THEN transform.translation[1] ELSE 0
             ty == IF transform.translation # <<>> THEN transform.translation[2] ELSE 0
             sx == IF transform.scale # <<>> THEN transform.scale[1] ELSE 1
             sy == IF transform.scale # <<>> THEN transform.scale[2] ELSE 1
             rotation == IF transform.rotation # <<>> THEN transform.rotation[1] ELSE 0
             cr == cos(rotation)
             sr == sin(rotation)
         IN  <<cr * sx, sr * sx, 0,
               -sr * sy, cr * sy, 0,
               tx, ty, 1>>

\* getTransformMatrix of geometry.js: an absent scale is 0, and the rotation
\* has the other sense.
getTransformMatrixGeometry(transform) ==
    IF transform.isNull THEN IDENTITY_MATRIX
    ELSE IF transform.matrix # <<>> THEN transform.matrix
    ELSE LET tx == IF transform.translation # <<>> THEN transform.translation[1] ELSE 0
             ty == IF transform.translation # <<>> THEN transform.translation[2] ELSE 0
             sx == IF transform.scale # <<>> THEN transform.scale[1] ELSE 0
             sy == IF transform.scale # <<>> THEN transform.scale[2] ELSE 0
             rotation == IF transform.rotation # <<>> THEN transform.rotation[1] ELSE 0
             cr == cos(rotation)
             sr == sin(rotation)
         IN  <<cr * sx, -sr * sx, 0,
               sr * sy, cr * sy, 0,
               tx, ty, 1>>

MatrixOf(transform) ==
    IF transformModule = "math" THEN getTransformMatrix(transform)
    ELSE getTransformMatrixGeometry(transform)

\* The transform as getTransformMatrix leaves it: with its matrix stored.
WithMatrix(transform) ==
    IF transform.isNull THEN transform
    ELSE [transform EXCEPT !.matrix = MatrixOf(transform)]

\* composeTransforms with the two matrices exchanged.
composeTransformsExchanged(second, first) ==
    IF second.isNull THEN first
    ELSE IF first.isNull THEN second
    ELSE LET m2 == MatrixOf(first)
             m1 == MatrixOf(second)
         IN  Transform(<<>>, <<>>, <<>>,
                <<m2[1] * m1[1] + m2[4] * m1[2] + m2[7] * m1[3],
                  m2[2] * m1[1] + m2[5] * m1[2] + m2[8] * m1[3],
                  m2[3] * m1[1] + m2[6] * m1[2] + m2[9] * m1[3],
                  m2[1] * m1[4] + m2[4] * m1[5] + m2[7] * m1[6],
                  m2[2] * m1[4] + m2[5] * m1[5] + m2[8] * m1[6],
                  m2[3] * m1[4] + m2[6] * m1[5] + m2[9] * m1[6],
                  m2[1] * m1[7] + m2[4] * m1[8] + m2[7] * m1[9],
                  m2[2] * m1[7] + m2[5] * m1[8] + m2[8] * m1[9],
                  m2[3] * m1[7] + m2[6] * m1[8] + m2[9] * m1[9]>>)

\* composeTransforms with m1[3] read for m1[1] in its first entry.
composeTransformsMisindexed(second, first) ==
    IF second.isNull THEN first
    ELSE IF first.isNull THEN second
    ELSE LET m2 == MatrixOf(second)
             m1 == MatrixOf(first)
         IN  Transform(<<>>, <<>>, <<>>,
                <<m2[1] * m1[1] + m2[4] * m1[4] + m2[7] * m1[3],
                  m2[2] * m1[1] + m2[5] * m1[2] + m2[8] * m1[3],
                  m2[3] * m1[1] + m2[6] * m1[2] + m2[9] * m1[3],
                  m2[1] * m1[4] + m2[4] * m1[5] + m2[7] * m1[6],
                  m2[2] * m1[4] + m2[5] * m1[5] + m2[8] * m1[6],
                  m2[3] * m1[4] + m2[6] * m1[5] + m2[9] * m1[6],
                  m2[1] * m1[7] + m2[4] * m1[8] + m2[7] * m1[9],
                  m2[2] * m1[7] + m2[5] * m1[8] + m2[8] * m1[9],
                  m2[3] * m1[7] + m2[6] * m1[8] + m2[9] * m1[9]>>)

composeTransforms(second, first) ==
    IF second.isNull THEN first
    ELSE IF first.isNull THEN second
    ELSE LET m2 == MatrixOf(second)
             m1 == MatrixOf(first)
         IN  Transform(<<>>, <<>>, <<>>,
                <<m2[1] * m1[1] + m2[4] * m1[2] + m2[7] * m1[3],
                  m2[2] * m1[1] + m2[5] * m1[2] + m2[8] * m1[3],
                  m2[3] * m1[1] + m2[6] * m1[2] + m2[9] * m1[3],
                  m2[1] * m1[4] + m2[4] * m1[5] + m2[7] * m1[6],
                  m2[2] * m1[4] + m2[5] * m1[5] + m2[8] * m1[6],
                  m2[3] * m1[4] + m2[6] * m1[5] + m2[9] * m1[6],
                  m2[1] * m1[7] + m2[4] * m1[8] + m2[7] * m1[9],
                  m2[2] * m1[7] + m2[5] * m1[8] + m2[8] * m1[9],
                  m2[3] * m1[7] + m2[6] * m1[8] + m2[9] * m1[9]>>)

Bounds(min, max) == [min |-> min, max |-> max]

\* transformBounds(bounds, transform) without a result argument.
transformBounds(box, transform) ==
    LET matrix == MatrixOf(transform)
        Low(coefficient, low, high) ==
            IF coefficient > 0 THEN coefficient * low ELSE coefficient * high
        High(coefficient, low, high) ==
            IF coefficient > 0 THEN coefficient * high ELSE coefficient * low
        minX == matrix[7] + Low(matrix[1], box.min[1], box.max[1])
                          + Low(matrix[4], box.min[2], box.max[2])
        maxX == matrix[7] + High(matrix[1], box.min[1], box.max[1])
                          + High(matrix[4], box.min[2], box.max[2])
        minY == matrix[8] + Low(matrix[2], box.min[1], box.max[1])
                          + Low(matrix[5], box.min[2], box.max[2])
        maxY == matrix[8] + High(matrix[2], box.min[1], box.max[1])
                          + High(matrix[5], box.min[2], box.max[2])
    IN  Bounds(<<minX, minY>>, <<maxX, maxY>>)

Translations == {<<>>, <<1, 2>>}

Rotations == {<<>>, <<1>>, <<2>>}

Scales == {<<>>, <<2, 3>>}

\* A shear, which commutes with none of the rotations and scales above.
Matrices == {<<1, 0, 0, 1, 1, 0, 0, 0, 1>>}

Transforms ==
    {nullTransform}
    \cup {Transform(translation, rotation, scale, <<>>) :
             <<translation, rotation, scale>> \in Translations \X Rotations \X Scales}
    \cup {Transform(<<>>, <<>>, <<>>, matrix) : matrix \in Matrices}

BoundsValues ==
    {Bounds(point, point) : point \in {<<0, 0>>, <<1, 0>>, <<0, 1>>, <<2, -1>>}}
    \cup {Bounds(<<0, 0>>, <<1, 2>>)}

TransformInit ==
    /\ transformPc = "ready"
    /\ transformModule \in {"math", "geometry"}
    /\ secondTransform \in Transforms
    /\ firstTransform \in Transforms
    /\ composed = nullTransform
    /\ bounds = Bounds(<<0, 0>>, <<0, 0>>)
    /\ imageComposed = Bounds(<<0, 0>>, <<0, 0>>)
    /\ imageSequential = Bounds(<<0, 0>>, <<0, 0>>)

\* composed = composeTransforms(secondTransform, firstTransform); when neither
\* is null, getTransformMatrix stores the matrix of each into it.
ComposeTransforms ==
    /\ transformPc = "ready"
    /\ composed' = composeTransforms(secondTransform, firstTransform)
    /\ IF secondTransform.isNull \/ firstTransform.isNull
       THEN UNCHANGED <<secondTransform, firstTransform>>
       ELSE /\ secondTransform' = WithMatrix(secondTransform)
            /\ firstTransform' = WithMatrix(firstTransform)
    /\ transformPc' = "composed"
    /\ UNCHANGED <<transformModule, bounds, imageComposed, imageSequential,
                   notTransformVars>>

\* transformBounds(bounds, composed) next to
\* transformBounds(transformBounds(bounds, firstTransform), secondTransform).
TransformBounds ==
    /\ transformPc \in {"composed", "applied"}
    /\ \E box \in BoundsValues :
          /\ bounds' = box
          /\ imageComposed' = transformBounds(box, composed)
          /\ imageSequential' =
                 transformBounds(transformBounds(box, firstTransform), secondTransform)
    /\ secondTransform' = WithMatrix(secondTransform)
    /\ firstTransform' = WithMatrix(firstTransform)
    /\ composed' = WithMatrix(composed)
    /\ transformPc' = "applied"
    /\ UNCHANGED <<transformModule, notTransformVars>>

InitTransform == NotTransformIdle /\ TransformInit

NextTransform == ComposeTransforms \/ TransformBounds

SpecTransform == InitTransform /\ [][NextTransform]_vars

\* The matrix product a * b, entry by entry: (a * b)[r, c] is the sum over k
\* of a[r, k] * b[k, c], the entry [r, c] being at place r + 3 * c.
MatrixProduct(a, b) ==
    [i \in 1..9 |->
        LET r == (i - 1) % 3
            c == (i - 1) \div 3
        IN  a[r + 1] * b[3 * c + 1] + a[r + 4] * b[3 * c + 2] + a[r + 7] * b[3 * c + 3]]

\* C10: the matrix of composeTransforms(second, first) is M2 * M1, a null
\* argument counting as the identity (the other argument is returned), and
\* the composed transform takes a point to where first and then second take it.
C10_ComposeIsSecondTimesFirst ==
    transformPc \in {"composed", "applied"} =>
        /\ MatrixOf(composed)
               = MatrixProduct(MatrixOf(secondTransform), MatrixOf(firstTransform))
        /\ secondTransform.isNull => composed = firstTransform
        /\ firstTransform.isNull => composed = secondTransform
        /\ (transformPc = "applied" /\ bounds.min = bounds.max)
               => imageComposed = imageSequential

\* C10 witness: two transforms whose matrices do not commute were composed and
\* the composition was applied to a point.
C10_Witness ==
    /\ transformPc = "applied"
    /\ ~secondTransform.isNull
    /\ ~firstTransform.isNull
    /\ MatrixProduct(MatrixOf(secondTransform), MatrixOf(firstTransform))
           # MatrixProduct(MatrixOf(firstTransform), MatrixOf(secondTransform))
    /\ bounds.min = bounds.max
    /\ imageComposed # bounds
    /\ imageComposed = imageSequential

-----------------------------------------------------------------------------
(* invertTransform (src/src/server/store/math.js, lines 22-52) *)

\* The transforms of this part have determinant 1, -1 or 0, so that
\* 1.0 / determinant is a whole number and the arithmetic is exact.

determinantOf(m) ==
    m[1] * (m[5] * m[9] - m[6] * m[8]) +
    m[2] * (m[6] * m[7] - m[4] * m[9]) +
    m[3] * (m[4] * m[8] - m[5] * m[7])

\* invertTransform with the cofactors left untransposed.
invertTransformUntransposed(transform) ==
    IF transform.isNull THEN transform
    ELSE LET m == MatrixOf(transform)
             determinant == determinantOf(m)
         IN  IF determinant = 0 THEN nullTransform
             ELSE LET scale == 1 \div determinant
                  IN  Transform(<<>>, <<>>, <<>>,
                         <<(m[5] * m[9] - m[8] * m[6]) * scale,
                           (m[7] * m[6] - m[4] * m[9]) * scale,
                           (m[4] * m[8] - m[7] * m[5]) * scale,
                           (m[8] * m[3] - m[2] * m[9]) * scale,
                           (m[1] * m[9] - m[7] * m[3]) * scale,
                           (m[7] * m[2] - m[1] * m[8]) * scale,
                           (m[2] * m[6] - m[5] * m[3]) * scale,
                           (m[4] * m[3] - m[1] * m[6]) * scale,
                           (m[1] * m[5] - m[4] * m[2]) * scale>>)

invertTransform(transform) ==
    IF transform.isNull THEN transform
    ELSE LET m == MatrixOf(transform)
             determinant == determinantOf(m)
         IN  IF determinant = 0 THEN nullTransform
             ELSE LET scale == 1 \div determinant
                  IN  Transform(<<>>, <<>>, <<>>,
                         <<(m[5] * m[9] - m[8] * m[6]) * scale,
                           (m[8] * m[3] - m[2] * m[9]) * scale,
                           (m[2] * m[6] - m[5] * m[3]) * scale,
                           (m[7] * m[6] - m[4] * m[9]) * scale,
                           (m[1] * m[9] - m[7] * m[3]) * scale,
                           (m[4] * m[3] - m[1] * m[6]) * scale,
                           (m[4] * m[8] - m[7] * m[5]) * scale,
                           (m[7] * m[2] - m[1] * m[8]) * scale,
                           (m[1] * m[5] - m[4] * m[2]) * scale>>)

UnitTranslations == {<<>>, <<1, 2>>, <<-3, 0>>}

UnitRotations == {<<>>, <<1>>, <<2>>, <<3>>}

\* Scales of determinant 1 and -1, and a singular one.
UnitScales == {<<>>, <<-1, 1>>, <<1, -1>>, <<0, 1>>}

\* A shear and a general matrix of determinant 1.
UnitMatrices == {<<1, 0, 0, 1, 1, 0, 0, 0, 1>>, <<2, 1, 0, 1, 1, 0, 3, -1, 1>>}

UnitTransforms ==
    {nullTransform}
    \cup {Transform(translation, rotation, scale, <<>>) :
             <<translation, rotation, scale>> \in
                 UnitTranslations \X UnitRotations \X UnitScales}
    \cup {Transform(<<>>, <<>>, <<>>, matrix) : matrix \in UnitMatrices}

RoundTripInit ==
    /\ roundTripPc = "ready"
    /\ original \in UnitTransforms
    /\ originalInverse = nullTransform
    /\ roundTrip = nullTransform
    /\ roundTripInverse = nullTransform

\* originalInverse = invertTransform(original); getTransformMatrix stores the
\* matrix into the argument.
InvertOriginal ==
    /\ roundTripPc = "ready"
    /\ originalInverse' = invertTransform(original)
    /\ original' = WithMatrix(original)
    /\ roundTripPc' = "inverted"
    /\ UNCHANGED <<roundTrip, roundTripInverse, firstFiveVars, notRoundTripVars>>

\* roundTrip = composeTransforms(original, originalInverse)
ComposeWithInverse ==
    /\ roundTripPc = "inverted"
    /\ roundTrip' = composeTransforms(original, originalInverse)
    /\ roundTripPc' = "composed"
    /\ UNCHANGED <<original, originalInverse, roundTripInverse, firstFiveVars,
                   notRoundTripVars>>

\* roundTripInverse = invertTransform(roundTrip)
InvertRoundTrip ==
    /\ roundTripPc = "composed"
    /\ roundTripInverse' = invertTransform(roundTrip)
    /\ roundTrip' = WithMatrix(roundTrip)
    /\ roundTripPc' = "done"
    /\ UNCHANGED <<original, originalInverse, firstFiveVars, notRoundTripVars>>

InitRoundTrip ==
    FirstFiveIdle /\ AssociateIdle /\ TurtleIdle /\ BufferIdle /\ RoundTripInit

NextRoundTrip == InvertOriginal \/ ComposeWithInverse \/ InvertRoundTrip

SpecRoundTrip == InitRoundTrip /\ [][NextRoundTrip]_vars

\* C11: for a non-singular transform T, composeTransforms(T, invertTransform(T))
\* has the identity matrix, and so has its inverse,
\* invertTransform(composeTransforms(T, invertTransform(T))).
C11_InverseRoundTrip ==
    determinantOf(MatrixOf(original)) # 0 =>
        /\ roundTripPc \in {"composed", "done"} => MatrixOf(roundTrip) = IDENTITY_MATRIX
        /\ roundTripPc = "done" => MatrixOf(roundTripInverse) = IDENTITY_MATRIX

\* C11 witness: the round trip was completed for a transform that translates,
\* rotates by a quarter turn and reflects; its inverse is another matrix.
C11_Witness ==
    /\ roundTripPc = "done"
    /\ original.translation = <<1, 2>>
    /\ original.rotation = <<1>>
    /\ original.scale = <<-1, 1>>
    /\ MatrixOf(originalInverse) # MatrixOf(original)
    /\ MatrixOf(originalInverse) # IDENTITY_MATRIX
    /\ MatrixOf(roundTripInverse) = IDENTITY_MATRIX

-----------------------------------------------------------------------------
(* composeTransforms, grouped to the left and to the right *)

\* The argument own of a call of composeTransforms with other, as the call
\* leaves it: getTransformMatrix is reached only when neither is null.
AfterCompose(own, other) ==
    IF own.isNull \/ other.isNull THEN own ELSE WithMatrix(own)

AssociateInit ==
    /\ associatePc = "ready"
    /\ transformA \in Transforms
    /\ transformB \in Transforms
    /\ transformC \in Transforms
    /\ leftComposed = nullTransform
    /\ rightComposed = nullTransform

\* leftComposed = composeTransforms(composeTransforms(A, B), C); the inner
\* result is B itself when A is null and A itself when B is null.
ComposeLeft ==
    /\ associatePc = "ready"
    /\ LET inner == composeTransforms(transformA, transformB)
           a1 == AfterCompose(transformA, transformB)
           b1 == AfterCompose(transformB, transformA)
       IN  /\ leftComposed' = composeTransforms(inner, transformC)
           /\ transformA' = IF transformB.isNull THEN AfterCompose(a1, transformC) ELSE a1
           /\ transformB' = IF transformA.isNull THEN AfterCompose(b1, transformC) ELSE b1
           /\ transformC' = AfterCompose(transformC, inner)
    /\ associatePc' = "left"
    /\ UNCHANGED <<rightComposed, firstFiveVars, notAssociateVars>>

\* rightComposed = composeTransforms(A, composeTransforms(B, C))
ComposeRight ==
    /\ associatePc = "left"
    /\ LET inner == composeTransforms(transformB, transformC)
           b1 == AfterCompose(transformB, transformC)
           c1 == AfterCompose(transformC, transformB)
       IN  /\ rightComposed' = composeTransforms(transformA, inner)
           /\ transformA' = AfterCompose(transformA, inner)
           /\ transformB' = IF transformC.isNull THEN AfterCompose(b1, transformA) ELSE b1
           /\ transformC' = IF transformB.isNull THEN AfterCompose(c1, transformA) ELSE c1
    /\ associatePc' = "done"
    /\ UNCHANGED <<leftComposed, firstFiveVars, notAssociateVars>>

\* Either copy of getTransformMatrix may be the one in use.
InitAssociate ==
    /\ EarIdle /\ GeomIdle /\ MiterIdle /\ CollisionIdle /\ RoundTripIdle /\ TurtleIdle
    /\ BufferIdle
    /\ transformPc = "off"
    /\ transformModule \in {"math", "geometry"}
    /\ secondTransform = <<>>
    /\ firstTransform = <<>>
    /\ composed = <<>>
    /\ bounds = <<>>
    /\ imageComposed = <<>>
    /\ imageSequential = <<>>
    /\ AssociateInit

NextAssociate == ComposeLeft \/ ComposeRight

SpecAssociate == InitAssociate /\ [][NextAssociate]_vars

\* C12: composeTransforms(composeTransforms(A, B), C) and
\* composeTransforms(A, composeTransforms(B, C)) have the same matrix, for any
\* transforms A, B and C, null ones included.
C12_ComposeAssociative ==
    associatePc = "done" => MatrixOf(leftComposed) = MatrixOf(rightComposed)

\* C12 witness: both groupings were composed of three transforms no two of
\* which commute.
C12_Witness ==
    /\ associatePc = "done"
    /\ ~transformA.isNull /\ ~transformB.isNull /\ ~transformC.isNull
    /\ LET a == MatrixOf(transformA)
           b == MatrixOf(transformB)
           c == MatrixOf(transformC)
       IN  /\ MatrixProduct(a, b) # MatrixProduct(b, a)
           /\ MatrixProduct(b, c) # MatrixProduct(c, b)
           /\ MatrixProduct(a, c) # MatrixProduct(c, a)
    /\ MatrixOf(leftComposed) = MatrixOf(rightComposed)
    /\ MatrixOf(leftComposed) # IDENTITY_MATRIX

-----------------------------------------------------------------------------
(* ShapeList, the builder methods (src/unnamed/part_003, lines 1070-1326) *)

\* Angles count eighths of a turn (45 degrees, so Math.PI is 4) and lengths
\* thousandths of a unit; Math.cos and Math.sin are their values times 1000,
\* rounded, which is exact at the quarter turns.  The builder calls are made
\* without the optional attributes argument, and raise and lower are not
\* called: zOrder stays 0 and attributes stays empty.

MaxCalls == 4

Pi == 4

radians(degrees) == degrees \div 45

cosMilli(angle) == <<1000, 707, 0, -707, -1000, -707, 0, 707>>[(angle % 8) + 1]

sinMilli(angle) == <<0, 707, 1000, 707, 0, -707, -1000, -707>>[(angle % 8) + 1]

\* The fields of the ShapeList; drawingPath is "shape" or "path" when
\* _drawingPath is the last Path pushed to that list, "none" when it is null.
ShapeListState ==
    [shapes |-> shapes, paths |-> paths, drawingPath |-> current,
     position |-> listPosition, rotation |-> listRotation]

\* _drawingPath.<method>(...): the command goes to the end of the drawing path.
Draw(shapeList, command) ==
    IF shapeList.drawingPath = "shape"
    THEN [shapeList EXCEPT !.shapes[Len(shapeList.shapes)] = WithCommand(@, command)]
    ELSE IF shapeList.drawingPath = "path"
    THEN [shapeList EXCEPT !.paths[Len(shapeList.paths)] = WithCommand(@, command)]
    ELSE shapeList

rotate(shapeList, angle) == [shapeList EXCEPT !.rotation = @ + angle]

\* pivot that turns the other way.
pivotClockwise(shapeList, angle) == rotate(shapeList, -radians(angle))

pivot(shapeList, angle) == rotate(shapeList, radians(angle))

\* The position after moving dist along rotation.
Forward(position, rotation, dist) ==
    <<position[1] + dist * cosMilli(rotation),
      position[2] + dist * sinMilli(rotation)>>

\* advance that moves only while a pen is down.
advancePenDownOnly(shapeList, dist) ==
    IF shapeList.drawingPath = "none" THEN shapeList
    ELSE LET moved == [shapeList EXCEPT
                          !.position = Forward(shapeList.position, shapeList.rotation, dist)]
         IN  Draw(moved, LineTo(moved.position, 0))

advance(shapeList, dist) ==
    LET moved == [shapeList EXCEPT
                     !.position = Forward(shapeList.position, shapeList.rotation, dist)]
    IN  Draw(moved, LineTo(moved.position, 0))

\* jump(x, y, rotation?): args is <<x, y>> or <<x, y, rotation>>, with x and
\* y in thousandths.
jump(shapeList, args) ==
    LET moved == [shapeList EXCEPT
                     !.position = <<args[1], args[2]>>,
                     !.rotation = IF Len(args) > 2 THEN args[3] ELSE @]
    IN  Draw(moved, LineTo(<<args[1], args[2]>>, 0))

\* arc(angle, radius) for an angle of at most Math.PI either way.
arcPiece(shapeList, angle, radius) ==
    LET nextRotation == shapeList.rotation + angle
        moved == [shapeList EXCEPT
                     !.position =
                         <<@[1] + radius * (sinMilli(nextRotation) - sinMilli(shapeList.rotation)),
                           @[2] + radius * (cosMilli(shapeList.rotation) - cosMilli(nextRotation))>>,
                     !.rotation = nextRotation]
    IN  Draw(moved, ArcTo(moved.position, radius, 0))

\* arc without the halving of angles beyond Math.PI.
arcUnsplit(shapeList, angle, radius) == arcPiece(shapeList, angle, radius)

\* arc(angle, radius); the angles of the model halve to whole eighths.
RECURSIVE arc(_, _, _)
arc(shapeList, angle, radius) ==
    IF angle > Pi \/ angle < -Pi
    THEN LET halfAngle == angle \div 2
         IN  arc(arc(shapeList, halfAngle, radius), halfAngle, radius)
    ELSE arcPiece(shapeList, angle, radius)

curve(shapeList, firstDistance, firstAngle, secondDistance, secondAngle, thirdDistance) ==
    LET c1 == Forward(shapeList.position, shapeList.rotation, firstDistance)
        rotation1 == shapeList.rotation + firstAngle
        c2 == Forward(c1, rotation1, secondDistance)
        rotation2 == rotation1 + secondAngle
        moved == [shapeList EXCEPT !.position = Forward(c2, rotation2, thirdDistance),
                                   !.rotation = rotation2]
    IN  Draw(moved, CurveTo(moved.position, c1, c2, 0))

\* penDown that pushes to paths whatever the flag.
penDownPathOnly(shapeList, shape) ==
    Draw([shapeList EXCEPT !.paths = Append(@, [loop |-> FALSE, commands |-> <<>>]),
                           !.drawingPath = "path"],
         MoveTo(shapeList.position, 0))

\* penDown(shape): new Shape(path) makes the path a loop.
penDown(shapeList, shape) ==
    LET pushed ==
            IF shape
            THEN [shapeList EXCEPT !.shapes = Append(@, [loop |-> TRUE, commands |-> <<>>]),
                                   !.drawingPath = "shape"]
            ELSE [shapeList EXCEPT !.paths = Append(@, [loop |-> FALSE, commands |-> <<>>]),
                                   !.drawingPath = "path"]
    IN  Draw(pushed, MoveTo(shapeList.position, 0))

\* penUp(closeLoop?): args is <<>> for no argument, else <<0>> or <<1>>.
penUp(shapeList, args) ==
    IF shapeList.drawingPath = "none" THEN shapeList
    ELSE LET closed ==
                 IF Len(args) = 0 THEN shapeList
                 ELSE IF shapeList.drawingPath = "shape"
                 THEN [shapeList EXCEPT !.shapes[Len(shapeList.shapes)].loop = (args[1] = 1)]
                 ELSE [shapeList EXCEPT !.paths[Len(shapeList.paths)].loop = (args[1] = 1)]
         IN  [closed EXCEPT !.drawingPath = "none"]

\* A call of a builder method, and the list after it.
Call(op, args) == [op |-> op, args |-> args]

ApplyCall(shapeList, call) ==
    CASE call.op = "penDown" -> penDown(shapeList, call.args[1] = 1)
      [] call.op = "penUp" -> penUp(shapeList, call.args)
      [] call.op = "advance" -> advance(shapeList, call.args[1])
      [] call.op = "jump" -> jump(shapeList, call.args)
      [] call.op = "arc" -> arc(shapeList, call.args[1], call.args[2])
      [] call.op = "curve" -> curve(shapeList, call.args[1], call.args[2], call.args[3],
                                    call.args[4], call.args[5])
      [] call.op = "pivot" -> pivot(shapeList, call.args[1])
      [] call.op = "rotate" -> rotate(shapeList, call.args[1])

notTurtleVars == <<miterVars, collisionVars, transformVars, roundTripVars, associateVars,
                   bufferVars>>

NotTurtleIdle ==
    MiterIdle /\ CollisionIdle /\ TransformIdle /\ RoundTripIdle /\ AssociateIdle /\ BufferIdle

\* The fields of createGeometry's passes, which the builder does not touch.
geometryPassVars == <<geomPc, viaApi, tessellation, stats, arrayIndex, groupIndex,
                      elementWrites, populated, error>>

\* The list becomes what the call makes of it.
Make(call) ==
    LET after == ApplyCall(ShapeListState, call)
    IN  /\ shapes' = after.shapes
        /\ paths' = after.paths
        /\ current' = after.drawingPath
        /\ listPosition' = after.position
        /\ listRotation' = after.rotation
        /\ lastCall' = call
        /\ callCount' = callCount + 1
        /\ UNCHANGED <<geometryPassVars, earVars, notTurtleVars>>

\* new ShapeList()
NewShapeList ==
    /\ EarIdle /\ GeomIdle /\ NotTurtleIdle
    /\ turtlePc = "build"
    /\ listPosition = <<0, 0>>
    /\ listRotation = 0
    /\ callCount = 0
    /\ lastCall = Call("new", <<>>)

\* Any sequence of at most MaxCalls calls may be made.
CanCall == turtlePc = "build" /\ callCount < MaxCalls

PenDown ==
    /\ CanCall
    /\ \E fill \in {0, 1} : Make(Call("penDown", <<fill>>))
    /\ UNCHANGED <<turtlePc, script>>

PenUp ==
    /\ CanCall
    /\ \E args \in {<<>>, <<0>>, <<1>>} : Make(Call("penUp", args))
    /\ UNCHANGED <<turtlePc, script>>

Advance ==
    /\ CanCall
    /\ Make(Call("advance", <<2>>))
    /\ UNCHANGED <<turtlePc, script>>

Jump ==
    /\ CanCall
    /\ \E args \in {<<1000, 1000>>, <<0, 0, 2>>} : Make(Call("jump", args))
    /\ UNCHANGED <<turtlePc, script>>

\* Angles that halve to whole eighths of a turn.
ArcAngles == {2, -3, 4, 6, 8, -12}

Arc ==
    /\ CanCall
    /\ \E angle \in ArcAngles : Make(Call("arc", <<angle, 1>>))
    /\ UNCHANGED <<turtlePc, script>>

Curve ==
    /\ CanCall
    /\ Make(Call("curve", <<1, 2, 1, -2, 1>>))
    /\ UNCHANGED <<turtlePc, script>>

Pivot ==
    /\ CanCall
    /\ Make(Call("pivot", <<90>>))
    /\ UNCHANGED <<turtlePc, script>>

Rotate ==
    /\ CanCall
    /\ Make(Call("rotate", <<-1>>))
    /\ UNCHANGED <<turtlePc, script>>

InitTurtle == NewShapeList /\ script = <<>>

NextTurtle == PenDown \/ PenUp \/ Advance \/ Jump \/ Arc \/ Curve \/ Pivot \/ Rotate

SpecTurtle == InitTurtle /\ [][NextTurtle]_vars

-----------------------------------------------------------------------------
(* Properties of the builder calls *)

MotionOps == {"advance", "jump", "arc", "curve"}

\* The commands of the drawing path, none when no pen is down.
DrawingCommands ==
    IF current = "none" THEN <<>> ELSE CurrentPath.commands

IsPrefix(short, long) ==
    /\ Len(short) <= Len(long)
    /\ \A i \in 1..Len(short) : long[i] = short[i]

\* C15: in every state that builder calls (penDown, penUp with any argument,
\* advance, jump, arc, curve, pivot, rotate) can reach, the exterior path of
\* every Shape in shapes has loop = true.
C15_ShapeExteriorLoop ==
    turtlePc = "build" => \A i \in 1..Len(shapes) : shapes[i].loop

\* Shapes do start as loops, and only the Shape being drawn can stop being
\* one: penUp(false) clears the loop flag of the drawing path, which is that
\* Shape's exterior.
C15_LoopUntilPenUpFalse ==
    [][turtlePc = "build" =>
          \A i \in 1..Len(shapes') :
              \/ shapes'[i].loop
              \/ /\ i <= Len(shapes)
                 /\ ~shapes[i].loop
              \/ /\ lastCall' = Call("penUp", <<0>>)
                 /\ current = "shape"
                 /\ i = Len(shapes)]_vars

C15_Witness ==
    /\ turtlePc = "build"
    /\ lastCall = Call("penUp", <<0>>)
    /\ Len(shapes) > 0
    /\ ~shapes[Len(shapes)].loop

\* C16: a motion command (advance, jump, arc, curve) leaves the position and
\* the rotation it would leave with the pen up; with a pen down it appends to
\* the drawing path, keeps that path's earlier commands and changes no other
\* path; with no pen down it changes no Path and no Shape.
C16_MotionSamePenUpOrDown ==
    [][lastCall'.op \in MotionOps /\ callCount' = callCount + 1 =>
          LET penIsUp == [ShapeListState EXCEPT !.drawingPath = "none"]
              expected == ApplyCall(penIsUp, lastCall')
          IN  /\ listPosition' = expected.position
              /\ listRotation' = expected.rotation
              /\ current' = current
              /\ Len(shapes') = Len(shapes)
              /\ Len(paths') = Len(paths)
              /\ current = "none" => shapes' = shapes /\ paths' = paths
              /\ current = "shape" =>
                     /\ paths' = paths
                     /\ \A i \in 1..(Len(shapes) - 1) : shapes'[i] = shapes[i]
              /\ current = "path" =>
                     /\ shapes' = shapes
                     /\ \A i \in 1..(Len(paths) - 1) : paths'[i] = paths[i]
              /\ current # "none" =>
                     /\ Len(DrawingCommands') > Len(DrawingCommands)
                     /\ IsPrefix(DrawingCommands, DrawingCommands')
                     /\ CurrentPath'.loop = CurrentPath.loop
                     /\ DrawingCommands'[Len(DrawingCommands')].dest = listPosition']_vars

C16_Witness ==
    /\ turtlePc = "build"
    /\ lastCall.op = "curve"
    /\ current = "shape"
    /\ Len(paths) > 0
    /\ Len(DrawingCommands) > 2

\* C17: penDown(fill) adds exactly one new Path, as a Shape in shapes when
\* fill is true and else in paths, never both, and makes it the drawing path;
\* penUp leaves no drawing path, and none comes back before the next penDown,
\* so that motion commands in between append to no path; no other operation
\* changes the number of shapes or paths.
C17_PenDownAddsOnePath ==
    [][callCount' = callCount + 1 =>
          /\ lastCall' = Call("penDown", <<1>>) =>
                 /\ Len(shapes') = Len(shapes) + 1
                 /\ IsPrefix(shapes, shapes')
                 /\ paths' = paths
                 /\ current' = "shape"
                 /\ DrawingCommands' = <<MoveTo(listPosition, 0)>>
          /\ lastCall' = Call("penDown", <<0>>) =>
                 /\ Len(paths') = Len(paths) + 1
                 /\ IsPrefix(paths, paths')
                 /\ shapes' = shapes
                 /\ current' = "path"
                 /\ DrawingCommands' = <<MoveTo(listPosition, 0)>>
          /\ lastCall'.op = "penUp" => current' = "none"
          /\ lastCall'.op # "penDown" =>
                 /\ Len(shapes') = Len(shapes)
                 /\ Len(paths') = Len(paths)
                 /\ current = "none" =>
                        /\ current' = "none"
                        /\ shapes' = shapes
                        /\ paths' = paths]_vars

C17_Witness ==
    /\ turtlePc = "build"
    /\ lastCall.op \in MotionOps
    /\ current = "none"
    /\ Len(shapes) = 1
    /\ Len(paths) = 1
    /\ callCount = 4

\* The commands a call appended to the drawing path.
Appended ==
    SubSeq(DrawingCommands', Len(DrawingCommands) + 1, Len(DrawingCommands'))

\* C18: arc(angle, radius) beyond half a turn either way is drawn as equal
\* pieces, halved until none exceeds Math.PI and no further (a power of two
\* of them); every arcTo ends where a turn of one more piece ends, and the
\* rotation after the call is the rotation before plus angle.
C18_ArcHalvesBeyondPi ==
    [][lastCall'.op = "arc" /\ callCount' = callCount + 1 =>
          LET angle == lastCall'.args[1]
              radius == lastCall'.args[2]
              magnitude == IF angle < 0 THEN -angle ELSE angle
              count == Len(Appended)
              After(turned) ==
                  <<listPosition[1]
                        + radius * (sinMilli(listRotation + turned) - sinMilli(listRotation)),
                    listPosition[2]
                        + radius * (cosMilli(listRotation) - cosMilli(listRotation + turned))>>
          IN  /\ listRotation' = listRotation + angle
              /\ listPosition' = After(angle)
              /\ current # "none" =>
                     /\ count \in {1, 2, 4, 8}
                     /\ magnitude <= count * Pi
                     /\ count > 1 => 2 * magnitude > count * Pi
                     /\ \A k \in 1..count :
                            /\ Appended[k].kind = "ArcTo"
                            /\ Appended[k].radius = radius
                            /\ Appended[k].dest = After(k * (angle \div count))]_vars

C18_Witness ==
    /\ turtlePc = "build"
    /\ lastCall = Call("arc", <<-12, 1>>)
    /\ current # "none"
    /\ Len(DrawingCommands) >= 5
    /\ \A k \in 0..3 :
           DrawingCommands[Len(DrawingCommands) - k].kind = "ArcTo"

-----------------------------------------------------------------------------
(* Scripted builder programs, and the triangulation of the Shape they build *)

\* move is called by the geometry catalog and is not among the builder
\* methods of part_003: it is taken to set the absolute position, and the
\* rotation when one is given, as jump does.
move(shapeList, args) == jump(shapeList, args)

\* jump(x, y).penDown(fill).advance(side).pivot(turn) ... .penUp(close)
Square(start, side, turn, fill, close) ==
    <<Call("jump", start), Call("penDown", <<fill>>),
      Call("advance", <<side>>), Call("pivot", <<turn>>),
      Call("advance", <<side>>), Call("pivot", <<turn>>),
      Call("advance", <<side>>), Call("pivot", <<turn>>),
      Call("advance", <<side>>), Call("penUp", close)>>

\* ComponentGeometry.rectangle.createShapeList; the attributes argument of
\* penDown, {thickness}, is left out.
rectangle(width, height, fill) ==
    <<Call("move", <<width * (-500), height * (-500)>>), Call("penDown", <<fill>>),
      Call("advance", <<width>>), Call("pivot", <<90>>),
      Call("advance", <<height>>), Call("pivot", <<90>>),
      Call("advance", <<width>>), Call("pivot", <<90>>),
      Call("advance", <<height>>)>>

Squares ==
    {Square(start, side, turn, fill, close) :
        start \in {<<0, 0>>, <<1000, -2000>>}, side \in {2, 5}, turn \in {90, -90},
        fill \in {0, 1}, close \in {<<>>, <<0>>, <<1>>}}

Rectangles ==
    {rectangle(width, height, fill) : width \in {3, 4}, height \in {1, 2}, fill \in {0, 1}}

\* A call of a program: the builder methods and move.
ApplyProgramCall(shapeList, call) ==
    IF call.op = "move" THEN move(shapeList, call.args) ELSE ApplyCall(shapeList, call)

\* The next call of the program is made.
RunCall ==
    /\ turtlePc = "build"
    /\ callCount < Len(script)
    /\ LET call == script[callCount + 1]
           after == ApplyProgramCall(ShapeListState, call)
       IN  /\ shapes' = after.shapes
           /\ paths' = after.paths
           /\ current' = after.drawingPath
           /\ listPosition' = after.position
           /\ listRotation' = after.rotation
           /\ lastCall' = call
    /\ callCount' = callCount + 1
    /\ turtlePc' = IF callCount + 1 = Len(script) THEN "built" ELSE "build"
    /\ UNCHANGED <<script, geometryPassVars, earVars, notTurtleVars>>

\* The points of the commands of a path of MoveTo and LineTo commands.
Dests(path) == [i \in 1..Len(path.commands) |-> path.commands[i].dest]

\* The vertex list of Shape.populateBuffers: the position of every fifth
\* vertex the exterior wrote.
BoundaryVertices(exterior) ==
    LET written == PathVertices(Dests(exterior), exterior.loop, TRUE)
    IN  [k \in 1..Ceil(Len(written), 5) |-> written[5 * (k - 1) + 1]]

\* Shape.populateBuffers of the first Shape, up to the ear-clipping loop.
ReadExterior ==
    /\ turtlePc = "built"
    /\ Len(shapes) > 0
    /\ turtlePc' = "read"
    /\ LET pts == BoundaryVertices(shapes[1])
       IN  /\ earPc' = IF Len(pts) - 2 > 0 THEN "loop" ELSE "done"
           /\ positions' = pts
           /\ left' = [i \in 1..Len(pts) |-> ((i + Len(pts) - 2) % Len(pts)) + 1]
           /\ right' = [i \in 1..Len(pts) |-> (i % Len(pts)) + 1]
           /\ convexVertices' = InitialConvex(pts)
           /\ concaveVertices' = InitialConcave(pts)
           /\ remainingTriangles' = Len(pts) - 2
           /\ iterationsWithoutTriangle' = 0
           /\ triangles' = <<>>
    /\ UNCHANGED <<geomVars, listPosition, listRotation, script, callCount, lastCall,
                   notTurtleVars>>

InitProgram ==
    /\ NewShapeList
    /\ script \in Squares \cup Rectangles

NextProgram == RunCall \/ ReadExterior \/ EarClip \/ EarStall

SpecProgram == InitProgram /\ [][NextProgram]_vars

BuiltBy(program) == script = program /\ callCount = Len(script)

\* C13: jump(0,0).penDown(true).advance(5).pivot(90).advance(5).pivot(90)
\* .advance(5).pivot(90).advance(5).penUp(true) leaves exactly one Shape and
\* no Path; the exterior is a loop whose boundary vertices are (0,0), (5,0),
\* (5,5), (0,5), and the triangulation ends with exactly 2 triangles whose
\* areas sum to 25 (lengths are in thousandths, areas doubled).
C13_SquareShape ==
    BuiltBy(Square(<<0, 0>>, 5, 90, 1, <<1>>)) =>
        /\ Len(shapes) = 1
        /\ paths = <<>>
        /\ shapes[1].loop
        /\ BoundaryVertices(shapes[1])
               = <<<<0, 0>>, <<5000, 0>>, <<5000, 5000>>, <<0, 5000>>>>
        /\ turtlePc = "read" =>
               /\ positions = BoundaryVertices(shapes[1])
               /\ Len(triangles) + remainingTriangles = 2
               /\ iterationsWithoutTriangle = 0
               /\ earPc = "done" =>
                      /\ Len(triangles) = 2
                      /\ \A i \in 1..2 : TriangleArea2(triangles[i]) > 0
                      /\ AbsAreaSumFrom(triangles, 1) = 2 * 25 * 1000 * 1000

C13_Witness ==
    /\ BuiltBy(Square(<<0, 0>>, 5, 90, 1, <<1>>))
    /\ turtlePc = "read"
    /\ earPc = "done"
    /\ Len(triangles) = 2

\* C14: the rectangle of the catalog with width 4, height 2 and fill false
\* yields no Shape and exactly one Path, which is closed (loop = true) and
\* has the 4 corners (-2,-1), (2,-1), (2,1), (-2,1).
C14_RectangleClosedPath ==
    BuiltBy(rectangle(4, 2, 0)) =>
        /\ shapes = <<>>
        /\ Len(paths) = 1
        /\ paths[1].loop
        /\ {paths[1].commands[i].dest : i \in 1..Len(paths[1].commands)}
               = {<<-2000, -1000>>, <<2000, -1000>>, <<2000, 1000>>, <<-2000, 1000>>}

\* What the rectangle does yield: one Path that is not a loop, drawn through
\* the four corners and back to the first, with the pen still down.
C14_RectangleOpenPath ==
    BuiltBy(rectangle(4, 2, 0)) =>
        /\ shapes = <<>>
        /\ Len(paths) = 1
        /\ ~paths[1].loop
        /\ Dests(paths[1]) = <<<<-2000, -1000>>, <<2000, -1000>>, <<2000, 1000>>,
                               <<-2000, 1000>>, <<-2000, -1000>>>>
        /\ current = "path"

-----------------------------------------------------------------------------
(* Path.updateStats and Path.populateBuffers of src/src/server/store/shape.js:
   the last command of a loop *)

\* Largest number of commands of the path.
MaxCloseCommands == 3

\* The commands of shape.js carry no zOrder; it is 0 here.
CloseDrawCommands == {command \in DrawCommands : command.zOrder = 0}

CloseMoveCommands == {MoveTo(dest, 0) : dest \in Destinations}

\* Paths as the Path methods build them: the first command is a MoveTo.
ClosePaths ==
    UNION {{<<first>> \o rest : first \in CloseMoveCommands,
                                 rest \in [1..n -> CloseDrawCommands \cup CloseMoveCommands]} :
           n \in 1..(MaxCloseCommands - 1)}

\* Vertices written before the path, firstArrayIndex / vertexSize.
FirstVertices == {0, 4}

SpanKinds == {"LineTo", "ArcTo", "CurveTo"}

\* closeLoop never set.
closeLoopNever(path, edge, ii) == FALSE

\* closeLoop of the command at position ii (from 1).
closeLoop(path, edge, ii) == (path.loop \/ edge) /\ ii = Len(path.commands)

\* previousCommand of the command at position ii (from 1).
previousCommand(path, edge, ii) ==
    LET n == Len(path.commands)
    IN  IF path.loop \/ edge THEN path.commands[((ii - 1 + n - 1) % n) + 1]
        ELSE IF ii = 1 THEN undefinedCommand
        ELSE path.commands[ii - 1]

\* _getDivisions of ArcTo and CurveTo; a LineTo is one span.
getDivisions(command, tessQuarters, previous) ==
    IF command.kind = "LineTo" THEN 1
    ELSE IF previous = undefinedCommand THEN 1
    ELSE IF command.kind = "ArcTo" THEN getArcParameters(command, tessQuarters, previous)[2]
    ELSE getSplineParameters(command, tessQuarters, previous)[2]

\* Vertices per point: edge ? 1 : 2.
VerticesPerPoint(edge) == IF edge THEN 1 ELSE 2

\* updateStats of MoveTo, LineTo, ArcTo and CurveTo.
CloseCommandUpdateStats(st, command, tessQuarters, edge, previous, closing) ==
    LET divisions == getDivisions(command, tessQuarters, previous)
    IN  CASE command.kind = "MoveTo" ->
                [st EXCEPT !.vertices = @ + VerticesPerPoint(edge)]
          [] command.kind = "LineTo" ->
                [st EXCEPT !.vertices = IF closing THEN @ ELSE @ + VerticesPerPoint(edge),
                           !.indices = IF edge THEN @ ELSE @ + 6]
          [] OTHER ->
                [st EXCEPT !.vertices = @ + VerticesPerPoint(edge)
                                            * (IF closing THEN divisions - 1 ELSE divisions),
                           !.indices = IF edge THEN @ ELSE @ + 6 * divisions]

RECURSIVE ClosePathUpdateStats(_, _, _, _, _)
ClosePathUpdateStats(st, path, tessQuarters, edge, ii) ==
    IF ii > Len(path.commands) THEN st
    ELSE ClosePathUpdateStats(
             CloseCommandUpdateStats(st, path.commands[ii], tessQuarters, edge,
                                     previousCommand(path, edge, ii),
                                     closeLoop(path, edge, ii)),
             path, tessQuarters, edge, ii + 1)

\* The running state of populateBuffers: arrayIndex counts vertices
\* (arrayIndex / vertexSize), vertices and indices are what has been written.

\* _writeVertices, for the point that ends division `division` of command ii.
closeWriteVertices(pb, edge, ii, division) ==
    [pb EXCEPT !.arrayIndex = @ + VerticesPerPoint(edge),
               !.vertices = @ \o Replicate([command |-> ii, division |-> division],
                                           VerticesPerPoint(edge))]

\* _writeIndices
closeWriteIndices(pb, fromIndex, toIndex) ==
    [pb EXCEPT !.indices = @ \o <<fromIndex, toIndex, fromIndex + 1,
                                   toIndex, toIndex + 1, fromIndex + 1>>]

\* One pass of the loop over the divisions of LineTo (one division), ArcTo
\* and CurveTo: the indices of the span, then the vertices of its end.
RECURSIVE CloseDivisions(_, _, _, _, _, _, _)
CloseDivisions(pb, edge, first, ii, closing, division, divisions) ==
    IF division > divisions THEN pb
    ELSE LET closingDivision == closing /\ division = divisions
             indexed == IF edge THEN pb
                        ELSE closeWriteIndices(pb, pb.arrayIndex - 2,
                                               IF closingDivision THEN first
                                               ELSE pb.arrayIndex)
             written == IF closingDivision THEN indexed
                        ELSE closeWriteVertices(indexed, edge, ii, division)
         IN  CloseDivisions(written, edge, first, ii, closing, division + 1, divisions)

\* populateBuffers of MoveTo, LineTo, ArcTo and CurveTo.
CloseCommandPopulateBuffers(pb, command, tessQuarters, edge, first, ii, previous, closing) ==
    IF command.kind = "MoveTo" THEN closeWriteVertices(pb, edge, ii, 1)
    ELSE CloseDivisions(pb, edge, first, ii, closing, 1,
                        getDivisions(command, tessQuarters, previous))

\* The command loop of Path.populateBuffers.
RECURSIVE ClosePathPopulateBuffers(_, _, _, _, _, _)
ClosePathPopulateBuffers(pb, path, tessQuarters, edge, first, ii) ==
    IF ii > Len(path.commands) THEN pb
    ELSE ClosePathPopulateBuffers(
             CloseCommandPopulateBuffers(pb, path.commands[ii], tessQuarters, edge, first, ii,
                                         previousCommand(path, edge, ii),
                                         closeLoop(path, edge, ii)),
             path, tessQuarters, edge, first, ii + 1)

notCloseVars == <<firstFiveVars, roundTripVars, associateVars, turtleVars, attributeVars,
                  lastVars>>

NotCloseIdle ==
    FirstFiveIdle /\ RoundTripIdle /\ AssociateIdle /\ TurtleIdle /\ AttributeIdle
        /\ LastIdle

\* path.updateStats(stats, tessellation, edge)
CloseUpdateStats ==
    /\ closePc = "ready"
    /\ closeStats' = ClosePathUpdateStats([vertices |-> 0, indices |-> 0], closePath,
                                          closeTessellation, closeEdge, 1)
    /\ closePc' = "counted"
    /\ UNCHANGED <<closePath, closeEdge, closeTessellation, closeFirst, closeVertices,
                   closeIndices, notCloseVars>>

\* path.populateBuffers(...), the loop over the commands
ClosePopulateBuffers ==
    /\ closePc = "counted"
    /\ LET pb == ClosePathPopulateBuffers(
                     [arrayIndex |-> closeFirst, vertices |-> <<>>, indices |-> <<>>],
                     closePath, closeTessellation, closeEdge, closeFirst, 1)
       IN  /\ closeVertices' = pb.vertices
           /\ closeIndices' = pb.indices
    /\ closePc' = "done"
    /\ UNCHANGED <<closePath, closeEdge, closeTessellation, closeFirst, closeStats,
                   notCloseVars>>

InitClose ==
    /\ NotCloseIdle
    /\ closePc = "ready"
    /\ \E commands \in ClosePaths, loop \in BOOLEAN :
           closePath = [loop |-> loop, commands |-> commands]
    /\ closeEdge \in BOOLEAN
    /\ closeTessellation \in Tessellations
    /\ closeFirst \in FirstVertices
    /\ closeStats = <<>>
    /\ closeVertices = <<>>
    /\ closeIndices = <<>>

NextClose == CloseUpdateStats \/ ClosePopulateBuffers

SpecClose == InitClose /\ [][NextClose]_vars

\* PathCommand._writeIndices of src/unnamed/part_003 (lines 486-547): the
\* indices of one span of a path of `count` vertices (vertexCount), whose
\* own vertices start at firstVertex + offset (vertexOffset) and whose join
\* with the next span takes the vertices after.
joinIndices(firstVertex, count, offset, loop, edge) ==
    LET offsetVertex == firstVertex + offset
        maxVertex == count - 1
        \* x % 0 is NaN, which a Uint32Array stores as 0; the sign of x % y
        \* is the sign of x
        v(k) == IF loop THEN (IF count = 0 THEN 0
                              ELSE firstVertex + ((offset + k) % Abs(count)))
                ELSE firstVertex + clamp(offset + k, 0, maxVertex)
        shared == <<offsetVertex, offsetVertex + 1, offsetVertex + 2,
                    offsetVertex, offsetVertex + 2, v(5),
                    v(5), offsetVertex + 2, offsetVertex + 3,
                    v(5), offsetVertex + 3, offsetVertex + 4,
                    v(5), offsetVertex + 4, v(6)>>
    IN  IF edge THEN shared
        ELSE shared \o <<v(6), offsetVertex + 4, v(7),
                         v(7), offsetVertex + 4, v(9),
                         v(7), v(9), v(8)>>

\* The number of divisions of the last command of the path.
LastDivisions ==
    getDivisions(closePath.commands[Len(closePath.commands)], closeTessellation,
                 previousCommand(closePath, closeEdge, Len(closePath.commands)))

\* No ArcTo or CurveTo of the path has fewer than one division.
AllDivisionsPositive ==
    \A ii \in 1..Len(closePath.commands) :
        getDivisions(closePath.commands[ii], closeTessellation,
                     previousCommand(closePath, closeEdge, ii)) >= 1

ClosedBySpan ==
    /\ closePc = "done"
    /\ closePath.loop
    /\ closePath.commands[Len(closePath.commands)].kind \in SpanKinds

\* One past the last vertex the path wrote.
CloseEnd == closeFirst + Len(closeVertices)

\* In shape.js the last command of a loop writes no vertex for the end of its
\* last division, and the six indices of that span join the last vertices
\* written to the first vertex of the path; every earlier span joins to the
\* vertices written next, and the first pass counts what the second writes
\* (when no arc or curve has fewer than one division).
C19_ClosingSpanWritesNoVertex ==
    ClosedBySpan =>
        /\ \A i \in 1..Len(closeVertices) :
               ~(/\ closeVertices[i].command = Len(closePath.commands)
                 /\ closeVertices[i].division = LastDivisions)
        /\ LastDivisions >= 1 =>
               Cardinality({i \in 1..Len(closeVertices) :
                               closeVertices[i].command = Len(closePath.commands)})
                   = VerticesPerPoint(closeEdge) * (LastDivisions - 1)
        /\ AllDivisionsPositive =>
               /\ closeStats.vertices = Len(closeVertices)
               /\ closeStats.indices = Len(closeIndices)
        /\ ~closeEdge /\ LastDivisions >= 1 =>
               /\ SubSeq(closeIndices, Len(closeIndices) - 5, Len(closeIndices))
                      = <<CloseEnd - 2, closeFirst, CloseEnd - 1,
                          closeFirst, closeFirst + 1, CloseEnd - 1>>
               /\ \A k \in 0..((Len(closeIndices) \div 6) - 2) :
                      closeIndices[6 * k + 2] = closeIndices[6 * k + 1] + 2
               /\ \A i \in 1..Len(closeIndices) :
                      closeIndices[i] >= closeFirst /\ closeIndices[i] < CloseEnd

\* In part_003 every span writes its own 5 (edge) or 8 vertices and the
\* MoveTo of a loop writes none; the indices of the last span of a loop
\* that reach past its own vertices (two of them) wrap to the first two
\* vertices of the path.
C19_JoinIndicesWrap ==
    ClosedBySpan =>
        \A spans \in 1..3 :
            LET per == getVerticesForDivisions(1, closeEdge)
                count == per * spans
                last == joinIndices(closeFirst, count, count - per, TRUE, closeEdge)
            IN  /\ \A i \in 1..Len(last) :
                       last[i] >= closeFirst /\ last[i] < closeFirst + count
                /\ closeEdge => last[6] = closeFirst /\ last[15] = closeFirst + 1
                /\ ~closeEdge => last[24] = closeFirst /\ last[21] = closeFirst + 1

\* C19: a LineTo, ArcTo or CurveTo that is the last command of a closed loop
\* emits no duplicate of the path's first vertex, and the indices of its
\* final span refer back to the path's first vertex rather than to a new one.
C19_LastSpanWrapsToFirst == C19_ClosingSpanWritesNoVertex /\ C19_JoinIndicesWrap

C19_Witness ==
    /\ ClosedBySpan
    /\ ~closeEdge
    /\ closeFirst > 0
    /\ closePath.commands[Len(closePath.commands)].kind = "ArcTo"
    /\ LastDivisions > 1
    /\ Len(closePath.commands) = 3
    /\ Len(closeIndices) >= 12

-----------------------------------------------------------------------------
(* Vertex attributes: PathCommand.updateStats, the offsets of createGeometry
   and PathCommand._writeAttributes (src/unnamed/part_003) *)

\* Largest number of commands of the first path.
MaxAttributeCommands == 2

\* A value of VertexAttributes: a number, or an array of numbers.
Scalar(number) == [array |-> FALSE, value |-> <<number>>]

Array(numbers) == [array |-> TRUE, value |-> numbers]

AttributeValues == {Scalar(7), Array(<<>>), Array(<<7, 8>>)}

Attribute(name, value) == [name |-> name, value |-> value]

\* The attributes objects of the commands, as the sequence of their keys in
\* insertion order with the values: undefined or {}, {a}, {b}, {a, b}.
AttributeObjects ==
    {<<>>}
        \cup {<<Attribute(name, value)>> : name \in {"a", "b"}, value \in AttributeValues}
        \cup {<<Attribute("a", first), Attribute("b", second)>> :
                 first \in AttributeValues, second \in AttributeValues}

\* A command with attributes; an ArcTo here is an arc of one division.
AttributeCommand(kind, attributes) == [kind |-> kind, attributes |-> attributes]

\* The first path: a MoveTo, then LineTo and ArcTo commands.
AttributeCommandLists ==
    UNION {{<<AttributeCommand("MoveTo", first)>> \o rest :
               first \in AttributeObjects,
               rest \in [1..n -> {AttributeCommand(kind, attributes) :
                                     kind \in {"LineTo", "ArcTo"},
                                     attributes \in AttributeObjects}]} :
           n \in 1..(MaxAttributeCommands - 1)}

\* The exterior of a Shape (edge, a loop) or a Path.
AttributePath(edge, loop, commands) == [edge |-> edge, loop |-> loop, commands |-> commands]

\* The lists of the model: a Shape or none, then the first path.
AttributeLists ==
    {exteriors \o <<AttributePath(FALSE, loop, commands)>> :
        exteriors \in {<<>>,
                       <<AttributePath(TRUE, TRUE,
                             <<AttributeCommand("MoveTo", <<>>),
                               AttributeCommand("LineTo",
                                   <<Attribute("b", Array(<<7, 8, 9>>))>>)>>)>>},
        loop \in BOOLEAN,
        commands \in AttributeCommandLists}

\* Array.isArray(value) ? value.length : 1
ComponentCount(value) == IF value.array THEN Len(value.value) ELSE 1

\* stats.attributeSizes with the order of its keys: {vertex: 2, vector: 2}.
InitialSizes ==
    [sizes |-> [name \in {"vertex", "vector"} |-> 2], names |-> <<"vertex", "vector">>]

\* The body of the loop of PathCommand.updateStats for one attribute.
AttributeUpdateStats(st, attribute) ==
    LET length == ComponentCount(attribute.value)
        known == attribute.name \in DOMAIN st.sizes
    IN  IF known /\ length <= st.sizes[attribute.name] THEN st
        ELSE [sizes |-> [name \in DOMAIN st.sizes \cup {attribute.name} |->
                            IF name = attribute.name THEN length ELSE st.sizes[name]],
              names |-> IF known THEN st.names ELSE Append(st.names, attribute.name)]

\* PathCommand.updateStats: the attributes from position ii on.
RECURSIVE AttributesUpdateStats(_, _, _)
AttributesUpdateStats(st, attributes, ii) ==
    IF ii > Len(attributes) THEN st
    ELSE AttributesUpdateStats(AttributeUpdateStats(st, attributes[ii]), attributes, ii + 1)

\* Path.updateStats, as far as the attributes go: the commands from ii on.
RECURSIVE CommandsUpdateStats(_, _, _)
CommandsUpdateStats(st, commands, ii) ==
    IF ii > Len(commands) THEN st
    ELSE CommandsUpdateStats(AttributesUpdateStats(st, commands[ii].attributes, 1),
                             commands, ii + 1)

\* The two loops of the first pass of createGeometry: the paths from ii on.
RECURSIVE ListUpdateStats(_, _, _)
ListUpdateStats(st, list, ii) ==
    IF ii > Len(list) THEN st
    ELSE ListUpdateStats(CommandsUpdateStats(st, list[ii].commands, 1), list, ii + 1)

\* vertexSize after the keys before position ii.
RECURSIVE SizeBeforeKey(_, _)
SizeBeforeKey(st, ii) ==
    IF ii <= 1 THEN 0 ELSE SizeBeforeKey(st, ii - 1) + st.sizes[st.names[ii - 1]]

\* The loop `for (const name in stats.attributeSizes)` of createGeometry.
OffsetsOf(st) ==
    [name \in DOMAIN st.sizes |->
        SizeBeforeKey(st, CHOOSE ii \in 1..Len(st.names) : st.names[ii] = name)]

HasAttribute(attributes, name) == \E ii \in 1..Len(attributes) : attributes[ii].name = name

ValueOf(attributes, name) ==
    attributes[CHOOSE ii \in 1..Len(attributes) : attributes[ii].name = name].value

\* The value of `previous` when _writeVertices is called without it.
noPrevious == AttributeCommand("undefined", <<>>)

\* A write of arrayBuffer[slot] for the attribute `name` of vertex `vertex`.
Write(vertex, slot, name) == [vertex |-> vertex, slot |-> slot, name |-> name]

\* The slots attributeIndex, ..., attributeIndex + count - 1.
Slots(vertex, attributeIndex, count, name) ==
    [ii \in 1..count |-> Write(vertex, attributeIndex + ii - 1, name)]

\* _writeAttributes, first loop, one attribute of previous: the number of
\* components mixed (totalLength, or 1 when neither value is an array).
MixedCount(previousValue, attributes, name) ==
    LET nextArray == HasAttribute(attributes, name) /\ ValueOf(attributes, name).array
    IN  IF previousValue.array \/ nextArray
        THEN Max(IF previousValue.array THEN Len(previousValue.value) ELSE 1,
                 IF nextArray THEN Len(ValueOf(attributes, name).value) ELSE 1)
        ELSE 1

\* _writeAttributes, first loop: the attributes of previous from ii on.
RECURSIVE WriteMixed(_, _, _, _, _, _)
WriteMixed(vertex, index, offsets, attributes, previous, ii) ==
    IF ii > Len(previous.attributes) THEN <<>>
    ELSE LET name == previous.attributes[ii].name
         IN  Slots(vertex, index + offsets[name],
                   MixedCount(previous.attributes[ii].value, attributes, name), name)
                 \o WriteMixed(vertex, index, offsets, attributes, previous, ii + 1)

\* _writeAttributes, second loop: the attributes of the command from ii on.
RECURSIVE WriteOwn(_, _, _, _, _, _)
WriteOwn(vertex, index, offsets, attributes, previous, ii) ==
    IF ii > Len(attributes) THEN <<>>
    ELSE LET name == attributes[ii].name
         IN  (IF HasAttribute(previous.attributes, name) THEN <<>>
              ELSE Slots(vertex, index + offsets[name],
                         ComponentCount(attributes[ii].value), name))
                 \o WriteOwn(vertex, index, offsets, attributes, previous, ii + 1)

\* _writeVertices: `count` vertices from arrayIndex `index` on, each with its
\* position and then the attributes; the values written are not kept.
RECURSIVE WriteVertices(_, _, _, _, _, _)
WriteVertices(count, index, offsets, size, command, previous) ==
    IF count <= 0 THEN <<>>
    ELSE Slots(index \div size, index + offsets["vertex"], 2, "vertex")
             \o WriteMixed(index \div size, index, offsets, command.attributes, previous, 1)
             \o WriteOwn(index \div size, index, offsets, command.attributes, previous, 1)
             \o WriteVertices(count - 1, index + size, offsets, size, command, previous)

\* The vertices a command writes: MoveTo two unless in a loop; LineTo and
\* ArcTo two and then the rest of the span, ArcTo with its previous command.
VerticesOf(command, path) ==
    IF command.kind = "MoveTo" THEN (IF path.loop THEN 0 ELSE 2)
    ELSE getVerticesForDivisions(1, path.edge)

\* populateBuffers of the commands of a path from ii on, attribute writes only.
RECURSIVE WriteCommands(_, _, _, _, _)
WriteCommands(index, offsets, size, path, ii) ==
    IF ii > Len(path.commands) THEN <<>>
    ELSE LET command == path.commands[ii]
             previous == IF command.kind = "ArcTo" THEN Previous(path, ii) ELSE noPrevious
             count == VerticesOf(command, path)
         IN  WriteVertices(count, index, offsets, size, command, previous)
                 \o WriteCommands(index + count * size, offsets, size, path, ii + 1)

\* The vertices the commands of a path from ii on write.
RECURSIVE PathVertexCount(_, _)
PathVertexCount(path, ii) ==
    IF ii > Len(path.commands) THEN 0
    ELSE VerticesOf(path.commands[ii], path) + PathVertexCount(path, ii + 1)

\* The vertices the paths before position ii write.
RECURSIVE VerticesBefore(_, _)
VerticesBefore(list, ii) ==
    IF ii <= 1 THEN 0
    ELSE VerticesBefore(list, ii - 1) + PathVertexCount(list[ii - 1], 1)

\* The two loops of the second pass of createGeometry: the paths from ii on.
RECURSIVE WriteList(_, _, _, _)
WriteList(offsets, size, list, ii) ==
    IF ii > Len(list) THEN <<>>
    ELSE WriteCommands(VerticesBefore(list, ii) * size, offsets, size, list[ii], 1)
             \o WriteList(offsets, size, list, ii + 1)

notAttributeVars == <<firstFiveVars, roundTripVars, associateVars, turtleVars, closeVars,
                      lastVars>>

NotAttributeIdle ==
    FirstFiveIdle /\ RoundTripIdle /\ AssociateIdle /\ TurtleIdle /\ CloseIdle
        /\ LastIdle

\* createGeometry, the first pass and the offsets (lines 1337-1355).
AttributeStats ==
    /\ attributePc = "ready"
    /\ LET st == ListUpdateStats(InitialSizes, attributePaths, 1)
       IN  /\ attributeSizes' = st.sizes
           /\ attributeNames' = st.names
           /\ attributeOffsets' = OffsetsOf(st)
           /\ vertexSize' = SizeBeforeKey(st, Len(st.names) + 1)
    /\ attributePc' = "counted"
    /\ UNCHANGED <<attributePaths, attributeWrites, notAttributeVars>>

\* createGeometry, the second pass (lines 1371-1404).
AttributePopulate ==
    /\ attributePc = "counted"
    /\ attributeWrites' = WriteList(attributeOffsets, vertexSize, attributePaths, 1)
    /\ attributePc' = "done"
    /\ UNCHANGED <<attributePaths, attributeSizes, attributeNames, attributeOffsets,
                   vertexSize, notAttributeVars>>

InitAttribute ==
    /\ NotAttributeIdle
    /\ attributePc = "ready"
    /\ attributePaths \in AttributeLists
    /\ attributeSizes = <<>>
    /\ attributeNames = <<>>
    /\ attributeOffsets = <<>>
    /\ vertexSize = 0
    /\ attributeWrites = <<>>

NextAttribute == AttributeStats \/ AttributePopulate

SpecAttribute == InitAttribute /\ [][NextAttribute]_vars

\* All commands of all shapes and paths.
CommandsOfList ==
    UNION {{attributePaths[i].commands[j] : j \in 1..Len(attributePaths[i].commands)} :
           i \in 1..Len(attributePaths)}

\* The component counts of the attribute `name` over all commands.
CountsOf(name) ==
    {ComponentCount(ValueOf(command.attributes, name)) :
        command \in {c \in CommandsOfList : HasAttribute(c.attributes, name)}}

SetMax(numbers) == CHOOSE n \in numbers : \A m \in numbers : m <= n

RECURSIVE SumOfSizes(_)
SumOfSizes(names) ==
    IF names = {} THEN 0
    ELSE LET name == CHOOSE n \in names : TRUE
         IN  attributeSizes[name] + SumOfSizes(names \ {name})

\* The first slot of the attribute `name` of a vertex.
RangeStart(vertex, name) == vertex * vertexSize + attributeOffsets[name]

\* The sizes are the maxima, vertexSize their sum, the offsets the prefix
\* sums in key order, and the ranges lie apart within the vertex.
SizesAndOffsets ==
    /\ \A name \in DOMAIN attributeSizes :
           CountsOf(name) # {} /\ name \notin {"vertex", "vector"} =>
               attributeSizes[name] = SetMax(CountsOf(name))
    /\ vertexSize = SumOfSizes(DOMAIN attributeSizes)
    /\ \A k \in 1..Len(attributeNames) :
           attributeOffsets[attributeNames[k]]
               = SumOfSizes({attributeNames[j] : j \in 1..(k - 1)})
    /\ \A k, l \in 1..Len(attributeNames) :
           k < l => attributeOffsets[attributeNames[k]] + attributeSizes[attributeNames[k]]
                        <= attributeOffsets[attributeNames[l]]
    /\ \A name \in DOMAIN attributeSizes :
           attributeOffsets[name] >= 0
               /\ attributeOffsets[name] + attributeSizes[name] <= vertexSize

\* C20: after the stats pass attributeSizes[name] is the maximum component
\* count of the attribute over all commands of all shapes and paths (a scalar
\* counts 1), vertexSize is the sum of the sizes and the offsets are their
\* prefix sums, so the ranges [offset, offset + size) of a vertex are
\* disjoint, and every attribute value written for a vertex stays inside
\* that vertex's own range.
C20_WritesInsideRanges ==
    attributePc \in {"counted", "done"} =>
        /\ SizesAndOffsets
        /\ \A i \in 1..Len(attributeWrites) :
               LET write == attributeWrites[i]
               IN  /\ write.slot >= RangeStart(write.vertex, write.name)
                   /\ write.slot < RangeStart(write.vertex, write.name)
                                       + attributeSizes[write.name]

\* What does hold: the sizes and offsets are as said (vertex and vector start
\* at 2), and a write lands within its range or, for an attribute of size 0
\* (all its values are empty arrays), on the one slot after its empty range,
\* when _writeAttributes mixes it from the previous command of an arc.
C20_WritesWithinOneSlot ==
    attributePc \in {"counted", "done"} =>
        /\ SizesAndOffsets
        /\ attributeSizes["vertex"] >= 2 /\ attributeSizes["vector"] >= 2
        /\ \A i \in 1..Len(attributeWrites) :
               LET write == attributeWrites[i]
               IN  /\ write.slot >= RangeStart(write.vertex, write.name)
                   /\ write.slot < RangeStart(write.vertex, write.name)
                                       + Max(attributeSizes[write.name], 1)

\* An attribute of size 0 written all the same.
C20_EmptyArrayWritten ==
    /\ attributePc = "done"
    /\ \E i \in 1..Len(attributeWrites) : attributeSizes[attributeWrites[i].name] = 0

-----------------------------------------------------------------------------
(* Claims about the emptiness test and the stall fallback of the ear loop *)

\* The vertices no emitted triangle has clipped yet.
RemainingVertices ==
    {v \in 1..Len(positions) : \A i \in 1..Len(triangles) : triangles[i][2] # v}

\* The step emitted a triangle.
Clipped == Len(triangles') = Len(triangles) + 1

ClippedTriangle == triangles'[Len(triangles')]

\* The point p is in the closed triangle t and off the line through t's left
\* and right corners (a point on that line is at signed distance 0 from the
\* test plane).
InEar(p, t) ==
    LET a == positions[t[1]]
        b == positions[t[2]]
        c == positions[t[3]]
    IN  /\ Orient(a, b, c) # 0
        /\ Orient(a, b, p) * Orient(a, b, c) >= 0
        /\ Orient(b, c, p) * Orient(a, b, c) >= 0
        /\ Orient(c, a, p) * Orient(a, b, c) > 0

\* C21: while the emptiness test is in force (the convex set is non-empty and
\* fewer than two passes in a row have stalled) a clipped vertex is in the
\* convex set, its triangle is (left, vertex, right), and no other remaining
\* vertex, of the convex or of the reflex set, lies inside the triangle or on
\* one of its two edges at the vertex.
C21_ClipOnlyEmptyConvexEar ==
    [][(Clipped /\ ~skipTest) =>
          LET t == ClippedTriangle
          IN  /\ t[2] \in SeqToSet(convexVertices)
              /\ t[1] = left[t[2]]
              /\ t[3] = right[t[2]]
              /\ \A k \in RemainingVertices \ {t[1], t[2], t[3]} :
                    /\ k \in SeqToSet(convexVertices) \cup SeqToSet(concaveVertices)
                    /\ ~InEar(positions[k], t)]_vars

\* C21 witness: with reflex vertices present, the first triangle clips a
\* convex vertex that is not the first of the convex set: the test was in
\* force and rejected the vertices before it.
C21_Witness ==
    /\ Len(triangles) >= 1
    /\ InitialConcave(positions) # <<>>
    /\ triangles[1][2] \in SeqToSet(InitialConvex(positions))
    /\ triangles[1][2] # InitialConvex(positions)[1]

\* No convex vertex of the exterior, as first classified, passes the
\* emptiness test.
InitiallyNoEar ==
    LET n == Len(positions)
        l(i) == ((i + n - 2) % n) + 1
        r(i) == (i % n) + 1
    IN  \A v \in SeqToSet(InitialConvex(positions)) :
            \E k \in (1..n) \ {v, l(v), r(v)} :
                signedDistanceScaled(positions[l(v)], positions[r(v)], positions[k]) < 0

\* C22: a convex vertex that fails the emptiness test is clipped only after
\* two passes in a row without a triangle; a vertex of the reflex set is
\* clipped only when the convex set is empty; the count of passes in a row
\* without a triangle never exceeds 2 and every emitted triangle resets it to 0.
C22_StallFallback ==
    /\ [](iterationsWithoutTriangle \in 0..2)
    /\ [][Clipped =>
             LET vertex == ClippedTriangle[2]
             IN  /\ (vertex \in SeqToSet(convexVertices) /\ NotAnEar(vertex))
                       => iterationsWithoutTriangle = 2
                 /\ vertex \in SeqToSet(concaveVertices) => Len(convexVertices) = 0
                 /\ iterationsWithoutTriangle' = 0]_vars

\* C22 witness: no convex vertex of the exterior was an ear, the loop stalled
\* twice and then clipped a convex vertex without the test.
C22_Witness ==
    /\ InitialConvex(positions) # <<>>
    /\ InitiallyNoEar
    /\ Len(triangles) >= 1
    /\ triangles[1][2] = InitialConvex(positions)[1]
    /\ iterationsWithoutTriangle = 0

\* The vertex reached from v by k steps along .right.
RECURSIVE WalkRight(_, _)
WalkRight(v, k) == IF k = 0 THEN v ELSE WalkRight(right[v], k - 1)

\* The vertices linked in the list that v is in.
LinkedFrom(v) == {WalkRight(v, k) : k \in 0..(Len(positions) - 1)}

\* C23: throughout ear clipping the convex and the reflex set are disjoint,
\* their union is the set of vertices still linked in the list, and the list
\* is a consistent doubly-linked cycle: v.left.right = v and v.right.left = v
\* for every remaining vertex v, and no clipped vertex is reached from a
\* remaining one.
C23_SetsPartitionLinkedCycle ==
    /\ SeqToSet(convexVertices) \cap SeqToSet(concaveVertices) = {}
    /\ Cardinality(SeqToSet(convexVertices)) = Len(convexVertices)
    /\ Cardinality(SeqToSet(concaveVertices)) = Len(concaveVertices)
    /\ SeqToSet(convexVertices) \cup SeqToSet(concaveVertices) = RemainingVertices
    /\ \A v \in RemainingVertices :
          /\ right[left[v]] = v
          /\ left[right[v]] = v
          /\ LinkedFrom(v) = RemainingVertices

\* C23 witness: two vertices have been clipped, the loop still runs, and a
\* vertex first classified reflex is now in the convex set.
C23_Witness ==
    /\ earPc = "loop"
    /\ Len(triangles) >= 2
    /\ \E v \in SeqToSet(InitialConcave(positions)) : v \in SeqToSet(convexVertices)

-----------------------------------------------------------------------------
(* Claims about the groups, the sizes and the indices of createGeometry *)

\* Number of groups the stats pass pushes for the first k shapes and paths of
\* the list: one per drawing command, and one more per shape for its fill.
RECURSIVE GroupsPushedByFirst(_)
GroupsPushedByFirst(k) ==
    IF k = 0 THEN 0
    ELSE GroupsPushedByFirst(k - 1)
         + (IF k <= Len(shapes)
            THEN Len(PathUpdateStats(EmptyStats, shapes[k], 1, tessellation, TRUE).groups) + 1
            ELSE Len(PathUpdateStats(EmptyStats, paths[k - Len(shapes)], 1, tessellation,
                                     FALSE).groups))

\* C24: the populate pass takes the groups in the order the stats pass pushed
\* them and as many of them: it never reads past the last group, after each
\* shape or path groupIndex is the number of groups pushed for the shapes and
\* paths populated so far, and every run of indices lies inside the range of
\* the group whose start it was written at (arcs and curves of several
\* divisions included).
C24_GroupsPairUp ==
    /\ error # "TypeError"
    /\ geomPc \in {"populate", "done"} => groupIndex = GroupsPushedByFirst(populated)
    /\ \A i \in 1..Len(elementWrites) :
          \E j \in 1..Len(stats.groups) :
              /\ stats.groups[j].start = elementWrites[i][1]
              /\ elementWrites[i][1] + elementWrites[i][2] <= stats.groups[j].end

\* C25: the stats pass never lowers stats.vertices or stats.indices: every
\* group it pushes (the indices of one command, or the fill of one shape)
\* has end >= start, the totals are not negative, and no typed array is
\* asked for with a negative length.
C25_StatsNeverDecrease ==
    geomPc \in {"populate", "done", "thrown"}
        => /\ error # "RangeError"
           /\ stats.vertices >= 0
           /\ stats.indices >= 0
           /\ \A j \in 1..Len(stats.groups) : stats.groups[j].end >= stats.groups[j].start

-----------------------------------------------------------------------------
(* createGeometry on lists of lines and curves: the values of the indices *)

\* Largest number of commands of a list.
MaxIndexCommands == 4

\* Tessellation levels in quarters: 0.5 and the default 4.0.
IndexTessellations == {2, 16}

\* lineTo and curveTo calls; the curve from (0, 0) leaves and comes back with
\* both control points at (2, 0).
IndexDraws ==
    {LineTo(<<2, 0>>, 1), LineTo(<<0, 0>>, 0),
     CurveTo(<<0, 0>>, <<2, 0>>, <<2, 0>>, 0)}

\* new Path(loop).moveTo(vec2(0, 0)) followed by up to `most` of the calls.
IndexPaths(most) ==
    {[loop |-> loop, commands |-> <<MoveTo(<<0, 0>>, 0)>> \o draws] :
        loop \in BOOLEAN,
        draws \in UNION {[1..n -> IndexDraws] : n \in 1..most}}

\* The lists: one shape, one path, or two paths.
IndexLists ==
    {<<<<exterior>>, <<>>>> :
        exterior \in {path \in IndexPaths(MaxIndexCommands - 1) : path.loop}}
    \cup {<<<<>>, <<path>>>> : path \in IndexPaths(MaxIndexCommands - 1)}
    \cup {<<<<>>, <<pair[1], pair[2]>>>> :
            pair \in {pr \in IndexPaths(MaxIndexCommands - 3)
                                \X IndexPaths(MaxIndexCommands - 3) :
                         Len(pr[1].commands) + Len(pr[2].commands) <= MaxIndexCommands}}

InitIndex ==
    /\ NotGeomIdle
    /\ geomPc = "build"
    /\ \E list \in IndexLists :
          /\ shapes = list[1]
          /\ paths = list[2]
    /\ current = "none"
    /\ viaApi = TRUE
    /\ tessellation = 0
    /\ stats = EmptyStats
    /\ arrayIndex = 0
    /\ groupIndex = 0
    /\ elementWrites = <<>>
    /\ populated = 0
    /\ error = ""

NextIndex ==
    \/ \E tessQuarters \in IndexTessellations : CreateGeometryStats(tessQuarters)
    \/ PopulateShape
    \/ PopulatePath
    \/ CreateGeometryReturn

SpecIndex == InitIndex /\ [][NextIndex]_vars

\* The values of a run of indices of a span, in the order of the slots.
RunValues(run) == joinIndices(run[3], run[4], run[5], run[6], run[7])

\* The boundary vertices a fill takes its triangles from.
FillVertices(run) == {run[3] + ii : ii \in {jj \in 0..(run[4] - 1) : jj % 5 = 0}}

\* The values of the run that land in the element buffer (a write past the
\* end of a typed array does nothing).
Landed(run) ==
    IF run[5] = -1
    THEN (IF run[1] < stats.indices THEN FillVertices(run) ELSE {})
    ELSE {RunValues(run)[k] : k \in {kk \in 1..run[2] : run[1] + kk - 1 < stats.indices}}

\* C26: every value createGeometry writes to the element buffer is a vertex
\* index of the vertex buffer (0 <= index < stats.vertices) and lies inside
\* the vertex range [firstVertex, firstVertex + vertexCount) of the path it
\* was written for, the indices of a shape's fill included.
C26_IndicesValidAndOwn ==
    \A i \in 1..Len(elementWrites) :
        \A index \in Landed(elementWrites[i]) :
            /\ 0 <= index
            /\ index < stats.vertices
            /\ elementWrites[i][3] <= index
            /\ index < elementWrites[i][3] + elementWrites[i][4]

\* The same for lists in which no command has a negative number of divisions.
C26_ValidWithoutNegativeDivisions ==
    (\A j \in 1..Len(stats.groups) : stats.groups[j].end >= stats.groups[j].start)
        => C26_IndicesValidAndOwn

\* The three indices of every fill triangle are three different vertices.
C26_FillTrianglesDistinct ==
    \A i \in 1..Len(triangles) :
        /\ triangles[i][1] # triangles[i][2]
        /\ triangles[i][2] # triangles[i][3]
        /\ triangles[i][1] # triangles[i][3]

-----------------------------------------------------------------------------
(* Claims about the vertices the vector pass touches *)

\* Every pass of the loop so far read the positions of the vertices
\* vertexOffset and vertexOffset + vertexSpan - 1 and wrote the vector
\* attribute of the vertices vertexOffset .. vertexOffset + vertexSpan - 1 it
\* ran at: the passes stayed inside the path when the offset after the last
\* of them is at most vertexCount.
PassesInsidePath == vertexOffset <= vertexCount

\* C27: the vector pass of Path.populateBuffers reads positions and writes
\* vector attributes only at the path's own vertices, the vertex offsets below
\* vertexCount, for loops and for paths that are not loops alike.
C27_VectorPassOwnVertices ==
    /\ PassesInsidePath
    /\ \A v \in DOMAIN vectorAttributes :
          v >= vertexCount => vectorAttributes[v] = Unwritten

\* The same for loops only, whose MoveTo writes no vertex.
C27_LoopPassOwnVertices == miterLoop => C27_VectorPassOwnVertices

-----------------------------------------------------------------------------
(* Claims about the re-ordered groups *)

\* The groups as the stats pass pushed them, before the ranges are adjusted.
PushedGroups ==
    PathsUpdateStats(ShapesUpdateStats(EmptyStats, 1, tessellation), 1, tessellation).groups

\* The slots of the element buffer in the range [start, end) of a group.
GroupSlots(group) == {slot \in 0..Max(stats.indices, group.end) :
                         group.start <= slot /\ slot < group.end}

\* C28: after createGeometry has re-ordered the groups, their ranges
\* [start, end) are pairwise disjoint and cover exactly [0, stats.indices),
\* every group has the size it was pushed with, and the ranges are laid out by
\* non-decreasing zOrder, groups of equal zOrder in the order of creation.
C28_GroupsPartitionByZOrder ==
    geomPc \in {"populate", "done"} =>
        LET groups == stats.groups
        IN  /\ \A i, j \in 1..Len(groups) :
                  i < j => GroupSlots(groups[i]) \cap GroupSlots(groups[j]) = {}
            /\ UNION {GroupSlots(groups[j]) : j \in 1..Len(groups)}
                  = 0..(stats.indices - 1)
            /\ Len(groups) = Len(PushedGroups)
            /\ \A j \in 1..Len(groups) :
                  groups[j].end - groups[j].start
                      = PushedGroups[j].end - PushedGroups[j].start
            /\ \A i, j \in 1..Len(groups) :
                  (\/ groups[i].zOrder < groups[j].zOrder
                   \/ (groups[i].zOrder = groups[j].zOrder /\ i < j))
                      => groups[i].end <= groups[j].start

\* The same for lists in which no group was pushed with a negative size.
C28_PartitionWithoutNegativeSizes ==
    (\A j \in 1..Len(stats.groups) : stats.groups[j].end >= stats.groups[j].start)
        => C28_GroupsPartitionByZOrder

\* ---------------------------------------------------------------------------
\* ShapeList as a builder: the objects its commands keep (src/unnamed/part_003)
\* ---------------------------------------------------------------------------
\* A command stores the `dest` and `attributes` it is given by reference
\* (PathCommand's constructor, lines 348-357), so the objects are modelled as
\* two heaps and a command holds indices into them.  The list's own `position`
\* and `attributes` are the first object of each heap.  The turtle keeps its
\* initial rotation 0, so advance moves along the x axis.

MaxBuilderCalls == 3

ListPosition == 1

ListAttributes == 1

\* VertexAttributes with two keys; 0 stands for a key the object does not have.
VertexAttributes(thickness, pathColor) ==
    [thickness |-> thickness, pathColor |-> pathColor]

\* the optional `attributes` argument of advance and jump; <<>> is "not given"
GivenAttributes ==
    {<<>>, VertexAttributes(2, 0), VertexAttributes(0, 1)}

BuilderDistances == {1, 2}

BuilderCoordinates == {0, 3}

\* Object.assign(target, source): the source's own keys overwrite the target's
ObjectAssign(target, source) ==
    [key \in DOMAIN target |-> IF source[key] # 0 THEN source[key] ELSE target[key]]

\* new ShapeList(): position = vec2(), attributes = {} (lines 1074-1077)
InitSnapshot ==
    /\ FirstFiveIdle /\ RoundTripIdle /\ AssociateIdle /\ TurtleIdle
    /\ CloseIdle /\ AttributeIdle /\ SimplifyIdle
    /\ snapshotPc = "build"
    /\ attributeObjects = <<VertexAttributes(0, 0)>>
    /\ vectorObjects = <<<<0, 0>>>>
    /\ listCommands = <<>>
    /\ penIsDown = FALSE
    /\ builderCalls = 0

notSnapshotVars == <<firstFiveVars, roundTripVars, associateVars, turtleVars, closeVars,
                     attributeVars, simplifyVars>>

\* penDown(shape) (lines 1262-1275): a new path whose MoveTo is given
\* equals(this.position), a new vector, and Object.assign(this.attributes),
\* which is this.attributes itself.  Which of `shapes` and `paths` receives
\* the path has no part in what the command refers to.
penDownCall ==
    /\ snapshotPc = "build"
    /\ builderCalls < MaxBuilderCalls
    /\ builderCalls' = builderCalls + 1
    /\ penIsDown' = TRUE
    /\ vectorObjects' = Append(vectorObjects, vectorObjects[ListPosition])
    /\ listCommands' = Append(listCommands,
            [kind |-> "MoveTo", dest |-> Len(vectorObjects) + 1,
             attributes |-> ListAttributes])
    /\ UNCHANGED <<snapshotPc, attributeObjects, notSnapshotVars>>

\* penUp(closeLoop) (lines 1284-1292)
penUpCall ==
    /\ snapshotPc = "build"
    /\ builderCalls < MaxBuilderCalls
    /\ builderCalls' = builderCalls + 1
    /\ penIsDown' = FALSE
    /\ UNCHANGED <<snapshotPc, attributeObjects, vectorObjects, listCommands,
                   notSnapshotVars>>

\* the tail shared by advance and jump: merge the given attributes into
\* this.attributes, then, when drawing, lineTo(a new vector, zOrder,
\* Object.assign({}, this.attributes))
MoveAndDraw(position, attributes) ==
    LET merged == IF attributes = <<>> THEN attributeObjects[ListAttributes]
                  ELSE ObjectAssign(attributeObjects[ListAttributes], attributes)
        moved == [vectorObjects EXCEPT ![ListPosition] = position]
        assigned == [attributeObjects EXCEPT ![ListAttributes] = merged]
    IN  IF penIsDown
        THEN /\ vectorObjects' = Append(moved, position)
             /\ attributeObjects' = Append(assigned, merged)
             /\ listCommands' = Append(listCommands,
                    [kind |-> "LineTo", dest |-> Len(vectorObjects) + 1,
                     attributes |-> Len(attributeObjects) + 1])
        ELSE /\ vectorObjects' = moved
             /\ attributeObjects' = assigned
             /\ listCommands' = listCommands

\* advance(distance, attributes) (lines 1114-1126), with rotation 0
advanceCall(dist, attributes) ==
    /\ snapshotPc = "build"
    /\ builderCalls < MaxBuilderCalls
    /\ builderCalls' = builderCalls + 1
    /\ MoveAndDraw(<<vectorObjects[ListPosition][1] + dist * cos(0),
                     vectorObjects[ListPosition][2] + dist * sin(0)>>, attributes)
    /\ UNCHANGED <<snapshotPc, penIsDown, notSnapshotVars>>

\* jump(x, y, rotation, attributes) (lines 1136-1156), rotation not given
jumpCall(x, y, attributes) ==
    /\ snapshotPc = "build"
    /\ builderCalls < MaxBuilderCalls
    /\ builderCalls' = builderCalls + 1
    /\ MoveAndDraw(<<x, y>>, attributes)
    /\ UNCHANGED <<snapshotPc, penIsDown, notSnapshotVars>>

NextSnapshot ==
    \/ penDownCall
    \/ penUpCall
    \/ \E dist \in BuilderDistances, attributes \in GivenAttributes :
            advanceCall(dist, attributes)
    \/ \E x \in BuilderCoordinates, y \in BuilderCoordinates,
          attributes \in GivenAttributes :
            jumpCall(x, y, attributes)

SpecSnapshot == InitSnapshot /\ [][NextSnapshot]_vars

\* what a command's fields read as
RecordedAttributes(command) == attributeObjects[command.attributes]

RecordedDest(command) == vectorObjects[command.dest]

\* C29: the attributes and the destination recorded on a command are a
\* snapshot: no later builder call changes the attributes or the dest of a
\* command appended earlier, the MoveTo of penDown included.
C29_CommandsAreSnapshots ==
    [][\A i \in 1..Len(listCommands) :
            /\ i <= Len(listCommands')
            /\ listCommands'[i].kind = listCommands[i].kind
            /\ RecordedAttributes(listCommands[i])' = RecordedAttributes(listCommands[i])
            /\ RecordedDest(listCommands[i])' = RecordedDest(listCommands[i])]_vars

\* What the builder does keep: every dest, and the attributes of every
\* command appended by advance or jump.
C29_DestsAndLineAttributesKept ==
    [][\A i \in 1..Len(listCommands) :
            /\ i <= Len(listCommands')
            /\ listCommands'[i].kind = listCommands[i].kind
            /\ RecordedDest(listCommands[i])' = RecordedDest(listCommands[i])
            /\ listCommands[i].kind = "LineTo" =>
                    RecordedAttributes(listCommands[i])'
                        = RecordedAttributes(listCommands[i])]_vars

\* ---------------------------------------------------------------------------
\* simplifyTransform (src/src/server/store/math.js, lines 62-103)
\* ---------------------------------------------------------------------------
\* Rotations are whole quarter turns and matrices have whole entries, one of
\* the two in each column being 0, so Math.atan2 and Math.sqrt are exact.
\* The scales of the transforms are not 0: Math.atan2 is never given two
\* zeros, whose signs would decide its result.

\* Math.atan2(y, x) in quarter turns, for a point on an axis.  atan2(-0, x)
\* with x < 0 is -Math.PI where this gives Math.PI: the same rotation.
atan2(y, x) ==
    IF y > 0 THEN 1
    ELSE IF y < 0 THEN -1
    ELSE IF x < 0 THEN 2
    ELSE 0

\* getTransformTranslation (lines 196-211) of a transform that is not null
getTransformTranslation(transform) ==
    IF transform.translation # <<>> THEN transform.translation
    ELSE IF transform.matrix # <<>> THEN <<transform.matrix[7], transform.matrix[8]>>
    ELSE <<0, 0>>

\* getTransformRotation (lines 219-235), in quarter turns
getTransformRotation(transform) ==
    IF transform.rotation # <<>> THEN transform.rotation[1]
    ELSE IF transform.matrix # <<>>
    THEN atan2(-transform.matrix[4], transform.matrix[5])
    ELSE 0

\* getTransformScale (lines 245-272)
getTransformScale(transform) ==
    IF transform.scale # <<>> THEN transform.scale
    ELSE IF transform.matrix # <<>>
    THEN <<Sqrt(transform.matrix[1] * transform.matrix[1]
                + transform.matrix[2] * transform.matrix[2]),
           Sqrt(transform.matrix[4] * transform.matrix[4]
                + transform.matrix[5] * transform.matrix[5])>>
    ELSE <<1, 1>>

\* simplifyTransform(transform, deleteRedundant): the three getters store
\* what they return into the transform, the matrix is removed, and each field
\* that is redundant is removed (set to null or deleted: absent either way).
simplifyTransform(transform) ==
    IF transform.isNull THEN transform
    ELSE LET translation == getTransformTranslation(transform)
             rotation == getTransformRotation(transform)
             scale == getTransformScale(transform)
             noTranslation == translation[1] = 0 /\ translation[2] = 0
             noRotation == rotation = 0
             noScale == scale[1] = 1 /\ scale[2] = 1
         IN  IF noTranslation /\ noRotation /\ noScale THEN nullTransform
             ELSE Transform(IF noTranslation THEN <<>> ELSE translation,
                            IF noRotation THEN <<>> ELSE <<rotation>>,
                            IF noScale THEN <<>> ELSE scale,
                            <<>>)

SimplifyTranslations == {<<>>, <<0, 0>>, <<1, 2>>}

SimplifyRotations == {<<>>, <<0>>, <<1>>, <<2>>, <<3>>}

SimplifyScales == {<<>>, <<1, 1>>, <<2, 1>>, <<-1, 1>>, <<1, -1>>}

\* transforms given by translation, rotation and scale
ComponentTransforms ==
    {Transform(translation, rotation, scale, <<>>) :
        translation \in SimplifyTranslations, rotation \in SimplifyRotations,
        scale \in SimplifyScales}

\* transforms given by a matrix only, as composeTransforms returns them
MatrixTransforms ==
    {Transform(<<>>, <<>>, <<>>, getTransformMatrix(transform)) :
        transform \in ComponentTransforms}

SimplifyInputs == {nullTransform} \union ComponentTransforms \union MatrixTransforms

notSimplifyVars == <<firstFiveVars, roundTripVars, associateVars, turtleVars, closeVars,
                     attributeVars, snapshotVars>>

InitSimplify ==
    /\ FirstFiveIdle /\ RoundTripIdle /\ AssociateIdle /\ TurtleIdle
    /\ CloseIdle /\ AttributeIdle /\ SnapshotIdle
    /\ simplifyPc = "ready"
    /\ simplifyInput \in SimplifyInputs
    /\ simplifyMatrix = getTransformMatrix(simplifyInput)
    /\ simplifyResult = <<>>

\* getTransformMatrix(T) before the call: it stores the matrix into T.
GetTransformMatrixCall ==
    /\ simplifyPc = "ready"
    /\ ~simplifyInput.isNull
    /\ simplifyInput.matrix = <<>>
    /\ simplifyInput' = [simplifyInput EXCEPT !.matrix = getTransformMatrix(simplifyInput)]
    /\ UNCHANGED <<simplifyPc, simplifyMatrix, simplifyResult, notSimplifyVars>>

SimplifyTransformCall ==
    /\ simplifyPc = "ready"
    /\ simplifyResult' = simplifyTransform(simplifyInput)
    /\ simplifyPc' = "done"
    /\ UNCHANGED <<simplifyInput, simplifyMatrix, notSimplifyVars>>

NextSimplify ==
    \/ GetTransformMatrixCall
    \/ SimplifyTransformCall

SpecSimplify == InitSimplify /\ [][NextSimplify]_vars

\* C30: simplifyTransform(T) denotes the same affine map as T: the matrix of
\* its result (null read as the identity) is getTransformMatrix(T) as it was
\* before the call, and the result is null only when T is the identity.
C30_SimplifyKeepsMatrix ==
    simplifyPc = "done" =>
        /\ getTransformMatrix(simplifyResult) = simplifyMatrix
        /\ simplifyResult.isNull => simplifyMatrix = IDENTITY_MATRIX

\* a matrix that mirrors: its determinant is negative
Mirrors(matrix) == matrix[1] * matrix[5] - matrix[2] * matrix[4] < 0

\* What simplifyTransform does keep: the map of a transform that holds no
\* matrix, and the map of one whose matrix does not mirror.
C30_KeepsMatrixWithoutMirror ==
    simplifyPc = "done" /\ (simplifyInput.isNull \/ simplifyInput.matrix = <<>>
                            \/ ~Mirrors(simplifyMatrix)) =>
        getTransformMatrix(simplifyResult) = simplifyMatrix

====
